---- MODULE Spec2Model ----
(***************************************************************************)
(* A model of the simulation engine of shokorocket_rust: the packed wall   *)
(* storage of World, the tile grid, the walker registries and the per-tick *)
(* resolution algorithm of World::tick.                                    *)
(*                                                                         *)
(* Directions, tile types, walker types and walker states are modelled as  *)
(* the strings of their Rust enum variants.                                *)
(***************************************************************************)
EXTENDS Integers, Sequences, FiniteSets, TLC

VARIABLES data, tiles, mice, cats, panicked, last, placed, opposed, ticks, ops,
          created, sm, sm_obs, lone, calc

vars == <<data, tiles, mice, cats, panicked, last, placed, opposed, ticks, ops,
          created, sm, sm_obs, lone, calc>>

----------------------------------------------------------------------------
(* Program constants (simulation/src/world.rs)                             *)

WORLD_WIDTH == 12
WORLD_HEIGHT == 9
MAX_WALKERS == WORLD_WIDTH * WORLD_HEIGHT
MAX_TILES == WORLD_WIDTH * WORLD_HEIGHT
HEADER_SIZE == 64
WALL_BLOCK_SIZE == 27
DATA_SIZE == 199

\* Indexed 0..3 in the source; TLA+ tuples are indexed 1..4.
LEFT_WALL_MASK == <<2, 8, 32, 128>>
TOP_WALL_MASK == <<1, 4, 16, 64>>

ENTITY_TYPE_MASK == 224
ENTITY_DIRECTION_MASK == 24
ARROW_PRESENT_MASK == 4
ARROW_DIRECTION_MASK == 3

ENTITY_TYPE_EMPTY == 0
ENTITY_TYPE_MOUSE == 32
ENTITY_TYPE_CAT == 64

ENTITY_DIRECTION_UP == 0
ENTITY_DIRECTION_DOWN == 8
ENTITY_DIRECTION_LEFT == 16
ENTITY_DIRECTION_RIGHT == 24

----------------------------------------------------------------------------
(* u8 bit operations                                                       *)

RECURSIVE BitAndN(_, _, _)
BitAndN(a, b, n) ==
    IF n = 0 THEN 0
    ELSE (IF a % 2 = 1 /\ b % 2 = 1 THEN 1 ELSE 0)
         + 2 * BitAndN(a \div 2, b \div 2, n - 1)

RECURSIVE BitOrN(_, _, _)
BitOrN(a, b, n) ==
    IF n = 0 THEN 0
    ELSE (IF a % 2 = 1 \/ b % 2 = 1 THEN 1 ELSE 0)
         + 2 * BitOrN(a \div 2, b \div 2, n - 1)

\* a & b, a | b and !a on u8
BitAnd(a, b) == BitAndN(a, b, 8)
BitOr(a, b) == BitOrN(a, b, 8)
BitNot(a) == 255 - a

----------------------------------------------------------------------------
(* Direction (src/direction.rs)                                            *)

Direction == {"Up", "Down", "Left", "Right"}

turn_right(d) ==
    CASE d = "Up" -> "Right"
      [] d = "Down" -> "Left"
      [] d = "Left" -> "Up"
      [] d = "Right" -> "Down"

\* turn_left with the arms of Down and Up exchanged
turn_left_up_down_exchanged(d) ==
    CASE d = "Up" -> "Right"
      [] d = "Down" -> "Left"
      [] d = "Left" -> "Down"
      [] d = "Right" -> "Up"

turn_left(d) ==
    CASE d = "Up" -> "Left"
      [] d = "Down" -> "Right"
      [] d = "Left" -> "Down"
      [] d = "Right" -> "Up"

turn_around(d) ==
    CASE d = "Up" -> "Down"
      [] d = "Down" -> "Up"
      [] d = "Left" -> "Right"
      [] d = "Right" -> "Left"

----------------------------------------------------------------------------
(* TileType (src/tile_type.rs)                                             *)

TileType == {"Empty", "Rocket", "Hole", "Up", "UpHalf", "Down", "DownHalf",
             "Left", "LeftHalf", "Right", "RightHalf"}

\* diminish without the arm that removes a half arrow
diminish_keeps_half(t) ==
    CASE t = "Up" -> "UpHalf"
      [] t = "Down" -> "DownHalf"
      [] t = "Left" -> "LeftHalf"
      [] t = "Right" -> "RightHalf"
      [] OTHER -> t

diminish(t) ==
    CASE t = "Up" -> "UpHalf"
      [] t = "Down" -> "DownHalf"
      [] t = "Left" -> "LeftHalf"
      [] t = "Right" -> "RightHalf"
      [] t \in {"UpHalf", "DownHalf", "LeftHalf", "RightHalf"} -> "Empty"
      [] OTHER -> t

\* The conversion without the half arrows
try_from_full_arrows_only(t) ==
    CASE t = "Up" -> [ok |-> TRUE, dir |-> "Up"]
      [] t = "Down" -> [ok |-> TRUE, dir |-> "Down"]
      [] t = "Left" -> [ok |-> TRUE, dir |-> "Left"]
      [] t = "Right" -> [ok |-> TRUE, dir |-> "Right"]
      [] OTHER -> [ok |-> FALSE, dir |-> "Up"]

\* TryFrom<TileType> for Direction: [ok |-> TRUE, dir |-> d] is Ok(d),
\* [ok |-> FALSE, ...] is Err(()).
try_from(t) ==
    CASE t \in {"Up", "UpHalf"} -> [ok |-> TRUE, dir |-> "Up"]
      [] t \in {"Down", "DownHalf"} -> [ok |-> TRUE, dir |-> "Down"]
      [] t \in {"Left", "LeftHalf"} -> [ok |-> TRUE, dir |-> "Left"]
      [] t \in {"Right", "RightHalf"} -> [ok |-> TRUE, dir |-> "Right"]
      [] OTHER -> [ok |-> FALSE, dir |-> "Up"]

----------------------------------------------------------------------------
(* FixedPoint (src/fixed_point.rs): value is an i8, fractional an i16      *)

WrapI8(v) == ((v + 128) % 256) - 128
WrapI16(v) == ((v + 32768) % 65536) - 32768

FixedPoint_new(value, fractional) == [value |-> value, fractional |-> fractional]

\* The sums of add_assign and the differences of sub_assign are the + and -
\* of i16 and i8: out of range they panic when the build checks overflow
\* (checked, the dev and test profiles) and wrap when it does not. A call
\* that panics gives [panic |-> message] in place of the FixedPoint.

\* An add_assign that takes 360 off the fractional sum without the carry
add_assign_carry_dropped(self, other, checked) ==
    LET fractional_sum == WrapI16(self.fractional + other.fractional)
        integral_sum == WrapI8(self.value + other.value)
    IN  IF checked /\ (\/ fractional_sum # self.fractional + other.fractional
                       \/ integral_sum # self.value + other.value)
            THEN [panic |-> "attempt to add with overflow"]
        ELSE IF fractional_sum >= 360
            THEN FixedPoint_new(integral_sum, WrapI16(fractional_sum - 360))
        ELSE FixedPoint_new(integral_sum, fractional_sum)

\* An add_assign that carries only when the fractional sum is above 360
add_assign_carry_late(self, other, checked) ==
    LET fractional_sum == WrapI16(self.fractional + other.fractional)
        integral_sum == WrapI8(self.value + other.value)
    IN  IF checked /\ (\/ fractional_sum # self.fractional + other.fractional
                       \/ integral_sum # self.value + other.value
                       \/ fractional_sum > 360 /\ integral_sum = 127)
            THEN [panic |-> "attempt to add with overflow"]
        ELSE IF fractional_sum > 360
            THEN FixedPoint_new(WrapI8(integral_sum + 1), WrapI16(fractional_sum - 360))
        ELSE FixedPoint_new(integral_sum, fractional_sum)

\* self += other. The panics of a checked build: the sum of the fractional
\* parts outside the i16, the sum of the values outside the i8, and the
\* carry integral_sum += 1 on 127.
add_assign(self, other, checked) ==
    LET fractional_sum == WrapI16(self.fractional + other.fractional)
        integral_sum == WrapI8(self.value + other.value)
    IN  IF checked /\ (\/ fractional_sum # self.fractional + other.fractional
                       \/ integral_sum # self.value + other.value
                       \/ fractional_sum >= 360 /\ integral_sum = 127)
            THEN [panic |-> "attempt to add with overflow"]
        ELSE IF fractional_sum >= 360
            THEN FixedPoint_new(WrapI8(integral_sum + 1), WrapI16(fractional_sum - 360))
        ELSE FixedPoint_new(integral_sum, fractional_sum)

\* sub_assign that borrows only below -360
sub_assign_borrow_late(self, other, checked) ==
    LET fractional_sum == WrapI16(self.fractional - other.fractional)
        integral_sum == WrapI8(self.value - other.value)
    IN  IF checked /\ (\/ fractional_sum # self.fractional - other.fractional
                       \/ integral_sum # self.value - other.value
                       \/ fractional_sum < -360 /\ integral_sum = -128)
            THEN [panic |-> "attempt to subtract with overflow"]
        ELSE IF fractional_sum < -360
            THEN FixedPoint_new(WrapI8(integral_sum - 1), WrapI16(fractional_sum + 360))
        ELSE FixedPoint_new(integral_sum, fractional_sum)

\* self -= other. The panics of a checked build: the difference of the
\* fractional parts outside the i16, the difference of the values outside
\* the i8, and the borrow integral_sum -= 1 on -128.
sub_assign(self, other, checked) ==
    LET fractional_sum == WrapI16(self.fractional - other.fractional)
        integral_sum == WrapI8(self.value - other.value)
    IN  IF checked /\ (\/ fractional_sum # self.fractional - other.fractional
                       \/ integral_sum # self.value - other.value
                       \/ fractional_sum <= -360 /\ integral_sum = -128)
            THEN [panic |-> "attempt to subtract with overflow"]
        ELSE IF fractional_sum <= -360
            THEN FixedPoint_new(WrapI8(integral_sum - 1), WrapI16(fractional_sum + 360))
        ELSE FixedPoint_new(integral_sum, fractional_sum)

did_overflow(self, copy) == self.value # copy.value

integer_part(self) == self.value

----------------------------------------------------------------------------
(* Walker (src/walker.rs)                                                  *)

WalkerType == {"Mouse", "Cat"}
WalkerState == {"Alive", "Dead", "Rescued"}

CAT_SPEED == 4
MOUSE_SPEED == 6

Walker_new(x, y, direction, walker_type) ==
    [x |-> FixedPoint_new(x, 0), y |-> FixedPoint_new(y, 0),
     direction |-> direction, walker_type |-> walker_type,
     walker_state |-> "Alive"]

\* walk(): the walker after the step and the WalkResult. checked is the
\* build: with overflow checks the += or -= of the step panics on a
\* coordinate at the end of the i8 range, and walk gives the
\* [panic |-> message] of the operator; without them the coordinate wraps.
walk(self, checked) ==
    LET speed == IF self.walker_type = "Cat"
                 THEN FixedPoint_new(0, CAT_SPEED)
                 ELSE FixedPoint_new(0, MOUSE_SPEED)
        stepped ==
            CASE self.direction = "Up" -> sub_assign(self.y, speed, checked)
              [] self.direction = "Down" -> add_assign(self.y, speed, checked)
              [] self.direction = "Left" -> sub_assign(self.x, speed, checked)
              [] self.direction = "Right" -> add_assign(self.x, speed, checked)
    IN  IF checked /\ "panic" \in DOMAIN stepped
        THEN stepped
        ELSE IF self.direction \in {"Up", "Down"}
        THEN [walker |-> [self EXCEPT !.y = stepped],
              result |-> IF did_overflow(stepped, self.y)
                         THEN "NewSquare" ELSE "None"]
        ELSE [walker |-> [self EXCEPT !.x = stepped],
              result |-> IF did_overflow(stepped, self.x)
                         THEN "NewSquare" ELSE "None"]

set_direction(self, direction) == [self EXCEPT !.direction = direction]

\* rescue() and kill() assert that the walker is Alive; a failed assertion
\* is reported as panic.
rescue(self) ==
    [walker |-> [self EXCEPT !.walker_state = "Rescued"],
     panic |-> self.walker_state # "Alive"]

kill(self) ==
    [walker |-> [self EXCEPT !.walker_state = "Dead"],
     panic |-> self.walker_state # "Alive"]

----------------------------------------------------------------------------
(* World storage (simulation/src/world.rs)                                 *)

Cells == 0 .. (MAX_TILES - 1)
XS == 0 .. (WORLD_WIDTH - 1)
YS == 0 .. (WORLD_HEIGHT - 1)

\* get_wrapped_wall_index_and_mask with the Right wall's mask taken at x
\* instead of x + 1
index_and_mask_right_unshifted(x, y, direction) ==
    LET e == CASE direction = "Up" ->
                    <<x, y, TOP_WALL_MASK[(x % 4) + 1]>>
               [] direction = "Down" ->
                    <<x, (y + 1) % WORLD_HEIGHT, TOP_WALL_MASK[(x % 4) + 1]>>
               [] direction = "Left" ->
                    <<x, y, LEFT_WALL_MASK[(x % 4) + 1]>>
               [] direction = "Right" ->
                    <<(x + 1) % WORLD_WIDTH, y, LEFT_WALL_MASK[(x % 4) + 1]>>
    IN  <<(e[2] * WORLD_WIDTH + e[1]) \div 4, e[3]>>

\* The wall index and the mask of the wall of cell (x, y) in a direction.
get_wrapped_wall_index_and_mask(x, y, direction) ==
    LET e == CASE direction = "Up" ->
                    <<x, y, TOP_WALL_MASK[(x % 4) + 1]>>
               [] direction = "Down" ->
                    <<x, (y + 1) % WORLD_HEIGHT, TOP_WALL_MASK[(x % 4) + 1]>>
               [] direction = "Left" ->
                    <<x, y, LEFT_WALL_MASK[(x % 4) + 1]>>
               [] direction = "Right" ->
                    <<(x + 1) % WORLD_WIDTH, y, LEFT_WALL_MASK[((x + 1) % 4) + 1]>>
    IN  <<(e[2] * WORLD_WIDTH + e[1]) \div 4, e[3]>>

set_wall(d, x, y, direction, present) ==
    LET im == get_wrapped_wall_index_and_mask(x, y, direction)
        i == HEADER_SIZE + im[1]
        mask == im[2]
    IN  IF present
        THEN [d EXCEPT ![i] = BitOr(d[i], mask)]
        ELSE [d EXCEPT ![i] = BitAnd(d[i], BitNot(mask))]

\* A get_wall_static that looks the wall bit up in the block of entity bytes
\* instead of the wall block
get_wall_static_entity_block(wall_data, x, y, direction) ==
    LET im == get_wrapped_wall_index_and_mask(x, y, direction)
        byte == wall_data[HEADER_SIZE + WALL_BLOCK_SIZE + im[1]]
    IN  BitAnd(byte, im[2]) = im[2]

get_wall_static(wall_data, x, y, direction) ==
    LET im == get_wrapped_wall_index_and_mask(x, y, direction)
        byte == wall_data[HEADER_SIZE + im[1]]
    IN  BitAnd(byte, im[2]) = im[2]

get_wall(x, y, direction) == get_wall_static(data, x, y, direction)

RECURSIVE SetTopWalls(_, _)
SetTopWalls(d, x) ==
    IF x = WORLD_WIDTH THEN d
    ELSE SetTopWalls(set_wall(d, x, 0, "Up", TRUE), x + 1)

RECURSIVE SetLeftWalls(_, _)
SetLeftWalls(d, y) ==
    IF y = WORLD_HEIGHT THEN d
    ELSE SetLeftWalls(set_wall(d, 0, y, "Left", TRUE), y + 1)

\* World::new() without the loop over the left walls
World_new_top_only ==
    [data |-> SetTopWalls([i \in 0 .. (DATA_SIZE - 1) |-> 0], 0),
     mice |-> <<>>,
     cats |-> <<>>,
     tiles |-> [c \in Cells |-> "Empty"]]

\* World::new(): the data buffer, the registries and the tiles
World_new ==
    [data |-> SetLeftWalls(SetTopWalls([i \in 0 .. (DATA_SIZE - 1) |-> 0], 0), 0),
     mice |-> <<>>,
     cats |-> <<>>,
     tiles |-> [c \in Cells |-> "Empty"]]

set_tile_static(t, x, y, tile_type) == [t EXCEPT ![y * WORLD_WIDTH + x] = tile_type]

get_arrow_static(arrows, x, y) == arrows[y * WORLD_WIDTH + x]

get_arrow(x, y) == get_arrow_static(tiles, x, y)

\* create_walker without the test of the entity byte
create_walker_no_overlap_test(d, m, c, x, y, direction, walker_type) ==
    LET i == HEADER_SIZE + WALL_BLOCK_SIZE + y * WORLD_WIDTH + x
        walker_byte == d[i]
        walker == Walker_new(x, y, direction, walker_type)
        b1 == BitAnd(walker_byte, BitOr(ARROW_PRESENT_MASK, ARROW_DIRECTION_MASK))
        b2 == BitOr(b1, CASE direction = "Up" -> ENTITY_DIRECTION_UP
                          [] direction = "Down" -> ENTITY_DIRECTION_DOWN
                          [] direction = "Left" -> ENTITY_DIRECTION_LEFT
                          [] direction = "Right" -> ENTITY_DIRECTION_RIGHT)
        b3 == BitOr(b2, IF walker_type = "Mouse" THEN ENTITY_TYPE_MOUSE
                        ELSE ENTITY_TYPE_CAT)
        full == IF walker_type = "Mouse" THEN Len(m) >= MAX_WALKERS
                ELSE Len(c) >= MAX_WALKERS
    IN  IF full
        THEN [data |-> d, mice |-> m, cats |-> c, ret |-> FALSE, panic |-> TRUE]
        ELSE [data |-> [d EXCEPT ![i] = b3],
              mice |-> IF walker_type = "Mouse" THEN Append(m, walker) ELSE m,
              cats |-> IF walker_type = "Cat" THEN Append(c, walker) ELSE c,
              ret |-> TRUE, panic |-> FALSE]

\* create_walker that leaves the entity bits of the byte clear
create_walker_entity_not_written(d, m, c, x, y, direction, walker_type) ==
    LET i == HEADER_SIZE + WALL_BLOCK_SIZE + y * WORLD_WIDTH + x
        walker_byte == d[i]
        walker == Walker_new(x, y, direction, walker_type)
        b1 == BitAnd(walker_byte, BitOr(ARROW_PRESENT_MASK, ARROW_DIRECTION_MASK))
        full == IF walker_type = "Mouse" THEN Len(m) >= MAX_WALKERS
                ELSE Len(c) >= MAX_WALKERS
    IN  IF BitAnd(walker_byte, ENTITY_TYPE_MASK) # ENTITY_TYPE_EMPTY
        THEN [data |-> d, mice |-> m, cats |-> c, ret |-> FALSE, panic |-> FALSE]
        ELSE IF full
        THEN [data |-> d, mice |-> m, cats |-> c, ret |-> FALSE, panic |-> TRUE]
        ELSE [data |-> [d EXCEPT ![i] = b1],
              mice |-> IF walker_type = "Mouse" THEN Append(m, walker) ELSE m,
              cats |-> IF walker_type = "Cat" THEN Append(c, walker) ELSE c,
              ret |-> TRUE, panic |-> FALSE]

\* A create_walker that takes the entity byte of the cell from the start of
\* the wall block
create_walker_in_wall_block(d, m, c, x, y, direction, walker_type) ==
    LET i == HEADER_SIZE + y * WORLD_WIDTH + x
        walker_byte == d[i]
        walker == Walker_new(x, y, direction, walker_type)
        b1 == BitAnd(walker_byte, BitOr(ARROW_PRESENT_MASK, ARROW_DIRECTION_MASK))
        b2 == BitOr(b1, CASE direction = "Up" -> ENTITY_DIRECTION_UP
                          [] direction = "Down" -> ENTITY_DIRECTION_DOWN
                          [] direction = "Left" -> ENTITY_DIRECTION_LEFT
                          [] direction = "Right" -> ENTITY_DIRECTION_RIGHT)
        b3 == BitOr(b2, IF walker_type = "Mouse" THEN ENTITY_TYPE_MOUSE
                        ELSE ENTITY_TYPE_CAT)
        full == IF walker_type = "Mouse" THEN Len(m) >= MAX_WALKERS
                ELSE Len(c) >= MAX_WALKERS
    IN  IF BitAnd(walker_byte, ENTITY_TYPE_MASK) # ENTITY_TYPE_EMPTY
        THEN [data |-> d, mice |-> m, cats |-> c, ret |-> FALSE, panic |-> FALSE]
        ELSE IF full
        THEN [data |-> d, mice |-> m, cats |-> c, ret |-> FALSE, panic |-> TRUE]
        ELSE [data |-> [d EXCEPT ![i] = b3],
              mice |-> IF walker_type = "Mouse" THEN Append(m, walker) ELSE m,
              cats |-> IF walker_type = "Cat" THEN Append(c, walker) ELSE c,
              ret |-> TRUE, panic |-> FALSE]

\* create_walker: the new buffer and registries, the returned bool, and
\* whether the push overflowed the fixed-capacity registry.
create_walker(d, m, c, x, y, direction, walker_type) ==
    LET i == HEADER_SIZE + WALL_BLOCK_SIZE + y * WORLD_WIDTH + x
        walker_byte == d[i]
        walker == Walker_new(x, y, direction, walker_type)
        b1 == BitAnd(walker_byte, BitOr(ARROW_PRESENT_MASK, ARROW_DIRECTION_MASK))
        b2 == BitOr(b1, CASE direction = "Up" -> ENTITY_DIRECTION_UP
                          [] direction = "Down" -> ENTITY_DIRECTION_DOWN
                          [] direction = "Left" -> ENTITY_DIRECTION_LEFT
                          [] direction = "Right" -> ENTITY_DIRECTION_RIGHT)
        b3 == BitOr(b2, IF walker_type = "Mouse" THEN ENTITY_TYPE_MOUSE
                        ELSE ENTITY_TYPE_CAT)
        full == IF walker_type = "Mouse" THEN Len(m) >= MAX_WALKERS
                ELSE Len(c) >= MAX_WALKERS
    IN  IF BitAnd(walker_byte, ENTITY_TYPE_MASK) # ENTITY_TYPE_EMPTY
        THEN [data |-> d, mice |-> m, cats |-> c, ret |-> FALSE, panic |-> FALSE]
        ELSE IF full
        THEN [data |-> d, mice |-> m, cats |-> c, ret |-> FALSE, panic |-> TRUE]
        ELSE [data |-> [d EXCEPT ![i] = b3],
              mice |-> IF walker_type = "Mouse" THEN Append(m, walker) ELSE m,
              cats |-> IF walker_type = "Cat" THEN Append(c, walker) ELSE c,
              ret |-> TRUE, panic |-> FALSE]

----------------------------------------------------------------------------
(* World::tick and its helpers (simulation/src/world.rs)                   *)

\* (x, y) as usize are valid indices of the grid
InGrid(x, y) == x \in XS /\ y \in YS

\* check_rockets_and_holes in which holes kill mice only
check_rockets_and_holes_cats_survive(t, walker) ==
    LET x == integer_part(walker.x)
        y == integer_part(walker.y)
        tile == t[y * WORLD_WIDTH + x]
    IN  CASE tile = "Hole" /\ walker.walker_type = "Mouse" -> kill(walker)
          [] tile = "Rocket" -> rescue(walker)
          [] OTHER -> [walker |-> walker, panic |-> FALSE]

check_rockets_and_holes(t, walker) ==
    LET x == integer_part(walker.x)
        y == integer_part(walker.y)
        tile == t[y * WORLD_WIDTH + x]
    IN  CASE tile = "Hole" -> kill(walker)
          [] tile = "Rocket" -> rescue(walker)
          [] OTHER -> [walker |-> walker, panic |-> FALSE]

\* check_arrows without the test that the walker is a Cat
check_arrows_any_walker(t, walker) ==
    LET x == integer_part(walker.x)
        y == integer_part(walker.y)
        arrow == t[y * WORLD_WIDTH + x]
        arrow_direction == try_from(arrow)
    IN  IF arrow_direction.ok
        THEN [tiles |-> IF turn_around(walker.direction) = arrow_direction.dir
                        THEN [t EXCEPT ![y * WORLD_WIDTH + x] = diminish(arrow)]
                        ELSE t,
              walker |-> [walker EXCEPT !.direction = arrow_direction.dir]]
        ELSE [tiles |-> t, walker |-> walker]

check_arrows(t, walker) ==
    LET x == integer_part(walker.x)
        y == integer_part(walker.y)
        arrow == get_arrow_static(t, x, y)
        arrow_direction == try_from(arrow)
    IN  IF arrow_direction.ok
        THEN [tiles |-> IF walker.walker_type = "Cat"
                           /\ turn_around(walker.direction) = arrow_direction.dir
                        THEN set_tile_static(t, x, y, diminish(arrow))
                        ELSE t,
              walker |-> set_direction(walker, arrow_direction.dir)]
        ELSE [tiles |-> t, walker |-> walker]

\* A first_clear that turns the walker around when every candidate is walled
RECURSIVE first_clear_turns_back(_, _, _, _, _)
first_clear_turns_back(wall_data, x, y, candidate_directions, walker) ==
    IF candidate_directions = <<>>
    THEN set_direction(walker, turn_around(walker.direction))
    ELSE IF ~get_wall_static(wall_data, x, y, Head(candidate_directions))
    THEN set_direction(walker, Head(candidate_directions))
    ELSE first_clear_turns_back(wall_data, x, y, Tail(candidate_directions),
                                walker)

RECURSIVE first_clear(_, _, _, _, _)
first_clear(wall_data, x, y, candidate_directions, walker) ==
    IF candidate_directions = <<>> THEN walker
    ELSE IF ~get_wall_static(wall_data, x, y, Head(candidate_directions))
    THEN set_direction(walker, Head(candidate_directions))
    ELSE first_clear(wall_data, x, y, Tail(candidate_directions), walker)

\* check_walls that tries the left turn before the right turn
check_walls_left_first(wall_data, walker) ==
    LET x == integer_part(walker.x)
        y == integer_part(walker.y)
        direction == walker.direction
        candidate_directions ==
            <<direction, turn_left(direction), turn_right(direction),
              turn_around(direction)>>
    IN  first_clear(wall_data, x, y, candidate_directions, walker)

check_walls(wall_data, walker) ==
    LET x == integer_part(walker.x)
        y == integer_part(walker.y)
        direction == walker.direction
        candidate_directions ==
            <<direction, turn_right(direction), turn_left(direction),
              turn_around(direction)>>
    IN  first_clear(wall_data, x, y, candidate_directions, walker)

\* resolve with the wall check made before the arrow check
resolve_walls_before_arrows(wall_data, t, walker, dir_in, idx) ==
    LET x == integer_part(walker.x)
        y == integer_part(walker.y)
        rh == check_rockets_and_holes(t, walker)
        wl == check_walls(wall_data, rh.walker)
        ar == check_arrows(t, wl)
    IN  IF ~InGrid(x, y)
        THEN [walker |-> walker, tiles |-> t, panic |-> "lookup", events |-> <<>>]
        ELSE [walker |-> ar.walker, tiles |-> ar.tiles,
              panic |-> IF rh.panic THEN "assert" ELSE "none",
              events |-> << [walker_type |-> walker.walker_type, idx |-> idx,
                            x |-> x, y |-> y, dir_in |-> dir_in,
                            tile |-> t[y * WORLD_WIDTH + x],
                            tile_after |-> ar.tiles[y * WORLD_WIDTH + x],
                            dir_arrow |-> ar.walker.direction,
                            dir_out |-> ar.walker.direction,
                            state |-> ar.walker.walker_state] >>]

\* Steps 2 to 4 of tick for one walker that reported NewSquare. The event
\* records what the three checks read and wrote. panic is "lookup" when a
\* lookup is made outside the grid, "assert" when kill() or rescue() is
\* called on a walker that is not Alive, and "none" otherwise.
resolve(wall_data, t, walker, dir_in, idx) ==
    LET x == integer_part(walker.x)
        y == integer_part(walker.y)
        rh == check_rockets_and_holes(t, walker)
        ar == check_arrows(t, rh.walker)
        wl == check_walls(wall_data, ar.walker)
    IN  IF ~InGrid(x, y)
        THEN [walker |-> walker, tiles |-> t, panic |-> "lookup", events |-> <<>>]
        ELSE [walker |-> wl, tiles |-> ar.tiles,
              panic |-> IF rh.panic THEN "assert" ELSE "none",
              events |-> << [walker_type |-> walker.walker_type, idx |-> idx,
                            x |-> x, y |-> y, dir_in |-> dir_in,
                            tile |-> t[y * WORLD_WIDTH + x],
                            tile_after |-> ar.tiles[y * WORLD_WIDTH + x],
                            dir_arrow |-> ar.walker.direction,
                            dir_out |-> wl.direction,
                            state |-> wl.walker_state] >>]

\* The walker loop that resolves every walker, whatever walk() reported
RECURSIVE walk_walkers_unguarded(_, _, _)
walk_walkers_unguarded(wall_data, i, acc) ==
    IF i > Len(acc.walkers) \/ acc.panic # "none" THEN acc
    ELSE LET w == walk(acc.walkers[i], FALSE)
             r == resolve(wall_data, acc.tiles, w.walker,
                          acc.walkers[i].direction, i)
         IN  walk_walkers_unguarded(wall_data, i + 1,
                 [walkers |-> [acc.walkers EXCEPT ![i] = r.walker],
                  tiles |-> r.tiles,
                  panic |-> r.panic,
                  events |-> acc.events \o r.events])

\* The walker loop of tick over one registry, from index i on. The walkers
\* of a World start inside the grid (create_walker asserts it) and stay
\* between -1 and 12 over the ticks made here, where the step of walk is
\* the same with and without overflow checks.
RECURSIVE walk_walkers(_, _, _)
walk_walkers(wall_data, i, acc) ==
    IF i > Len(acc.walkers) \/ acc.panic # "none" THEN acc
    ELSE LET w == walk(acc.walkers[i], FALSE)
             r == IF w.result = "NewSquare"
                  THEN resolve(wall_data, acc.tiles, w.walker,
                               acc.walkers[i].direction, i)
                  ELSE [walker |-> w.walker, tiles |-> acc.tiles,
                        panic |-> "none", events |-> <<>>]
         IN  walk_walkers(wall_data, i + 1,
                 [walkers |-> [acc.walkers EXCEPT ![i] = r.walker],
                  tiles |-> r.tiles,
                  panic |-> r.panic,
                  events |-> acc.events \o r.events])

AnyState(ws, s) == \E i \in 1 .. Len(ws) : ws[i].walker_state = s
AllState(ws, s) == \A i \in 1 .. Len(ws) : ws[i].walker_state = s

\* state_change without the is_empty test of step 7
state_change_no_empty_test(m, c) ==
    LET lose == IF AnyState(m, "Dead") \/ AnyState(c, "Rescued")
                THEN "Lose" ELSE "NoChange"
    IN  IF AllState(m, "Rescued") THEN "Win" ELSE lose

\* Steps 6 and 7 of tick: the WorldStateChange from the registries as the
\* walker loop left them.
state_change(m, c) ==
    LET lose == IF AnyState(m, "Dead") \/ AnyState(c, "Rescued")
                THEN "Lose" ELSE "NoChange"
    IN  IF Len(m) # 0 /\ AllState(m, "Rescued") THEN "Win" ELSE lose

IsAlive(w) == w.walker_state = "Alive"

NotRescued(w) == w.walker_state # "Rescued"

\* retain that keeps every walker
retain_all(ws) == ws

NotDead(w) == w.walker_state # "Dead"

\* retain that keeps every walker that did not die
retain_not_dead(ws) == SelectSeq(ws, NotDead)

\* retain that keeps every walker that was not rescued
retain_not_rescued(ws) == SelectSeq(ws, NotRescued)

\* Step 8 of tick
retain_alive(ws) == SelectSeq(ws, IsAlive)

\* A tick whose step 8 prunes the cats and leaves the mice
tick_prunes_cats_only(wall_data, t, m, c) ==
    LET am == walk_walkers(wall_data, 1,
                  [walkers |-> m, tiles |-> t, panic |-> "none", events |-> <<>>])
        ac == walk_walkers(wall_data, 1,
                  [walkers |-> c, tiles |-> am.tiles, panic |-> am.panic,
                   events |-> am.events])
    IN  [panic |-> ac.panic,
         tiles |-> ac.tiles,
         mice_end |-> am.walkers,
         cats_end |-> ac.walkers,
         events |-> ac.events,
         ret |-> state_change(am.walkers, ac.walkers),
         mice |-> am.walkers,
         cats |-> retain_alive(ac.walkers)]

\* A tick that resolves the cats before the mice
tick_cats_first(wall_data, t, m, c) ==
    LET ac == walk_walkers(wall_data, 1,
                  [walkers |-> c, tiles |-> t, panic |-> "none", events |-> <<>>])
        am == walk_walkers(wall_data, 1,
                  [walkers |-> m, tiles |-> ac.tiles, panic |-> ac.panic,
                   events |-> ac.events])
    IN  [panic |-> am.panic,
         tiles |-> am.tiles,
         mice_end |-> am.walkers,
         cats_end |-> ac.walkers,
         events |-> am.events,
         ret |-> state_change(am.walkers, ac.walkers),
         mice |-> retain_alive(am.walkers),
         cats |-> retain_alive(ac.walkers)]

tick(wall_data, t, m, c) ==
    LET am == walk_walkers(wall_data, 1,
                  [walkers |-> m, tiles |-> t, panic |-> "none", events |-> <<>>])
        ac == walk_walkers(wall_data, 1,
                  [walkers |-> c, tiles |-> am.tiles, panic |-> am.panic,
                   events |-> am.events])
    IN  [panic |-> ac.panic,
         tiles |-> ac.tiles,
         mice_end |-> am.walkers,
         cats_end |-> ac.walkers,
         events |-> ac.events,
         ret |-> state_change(am.walkers, ac.walkers),
         mice |-> retain_alive(am.walkers),
         cats |-> retain_alive(ac.walkers)]

----------------------------------------------------------------------------
(* The application state machine (simulation/src/state_machine.rs)         *)

\* AppState is an enum of IntroState, MenuState and GameState. A value is
\* modelled as one record with the fields of all three variants; the fields
\* a variant does not have are held at 0 / FALSE, so that record equality is
\* the derived PartialEq of the enum.
AppKind == {"Intro", "Menu", "Game"}

IntroState(frame, transition_started) ==
    [kind |-> "Intro", frame |-> frame, transition_started |-> transition_started,
     map_index |-> 0, map_count |-> 0]

MenuState(map_index, map_count) ==
    [kind |-> "Menu", frame |-> 0, transition_started |-> FALSE,
     map_index |-> map_index, map_count |-> map_count]

GameState ==
    [kind |-> "Game", frame |-> 0, transition_started |-> FALSE,
     map_index |-> 0, map_count |-> 0]

\* The `pressed` flags of an InputState that the states read.
InputState(start, a, b, up, down) ==
    [btn_start |-> start, btn_a |-> a, btn_b |-> b, js_up |-> up, js_down |-> down]

\* Option<AppState>::None
NoRequest == [some |-> FALSE, target |-> GameState]

\* IntroState::tick without the test of transition_started
IntroState_tick_every_press(self, input) ==
    LET frame == self.frame + 1
        go == \/ input.btn_start
              \/ input.btn_a
              \/ input.btn_b
              \/ frame = 120
    IN  IF go
        THEN [state |-> IntroState(frame, TRUE),
              request |-> [some |-> TRUE, target |-> MenuState(0, 10)]]
        ELSE [state |-> IntroState(frame, self.transition_started),
              request |-> NoRequest]

\* IntroState::tick: the state after the call and the Option it returns.
\* frame is a u32, which no run of fewer than 2^32 ticks overflows.
IntroState_tick(self, input) ==
    LET frame == self.frame + 1
        go == /\ ~self.transition_started
              /\ \/ input.btn_start
                 \/ input.btn_a
                 \/ input.btn_b
                 \/ frame = 120
    IN  IF go
        THEN [state |-> IntroState(frame, TRUE),
              request |-> [some |-> TRUE, target |-> MenuState(0, 10)]]
        ELSE [state |-> IntroState(frame, self.transition_started),
              request |-> NoRequest]

\* A MenuState::tick that asks for the Game state when A is pressed
MenuState_tick_starts_game(self, input) ==
    [state |-> self,
     request |-> IF input.btn_a THEN [some |-> TRUE, target |-> GameState]
                 ELSE NoRequest]

\* MenuState::tick. map_index is a u16.
MenuState_tick(self, input) ==
    LET i1 == IF input.js_up
              THEN (IF self.map_index = 0 THEN 10
                    ELSE self.map_index - 1)
              ELSE self.map_index
        i2 == IF input.js_down
              THEN (IF i1 = 10 THEN 0 ELSE (i1 + 1) % (2 ^ 16))
              ELSE i1
    IN  [state |-> MenuState(i2, self.map_count), request |-> NoRequest]

GameState_tick(self, input) == [state |-> self, request |-> NoRequest]

\* AppState::tick
AppState_tick(self, input) ==
    CASE self.kind = "Intro" -> IntroState_tick(self, input)
      [] self.kind = "Menu" -> MenuState_tick(self, input)
      [] self.kind = "Game" -> GameState_tick(self, input)

\* StateMachine::new. The World the StateMachine owns is not read or written
\* by StateMachine::tick and is left out of the record.
StateMachine_new ==
    [state |-> IntroState(0, FALSE),
     target_state |-> IntroState(0, FALSE),
     transition_timer |-> 0]

\* The first half of StateMachine::tick with the switch made on every tick
\* on which state and target_state differ
advance_transition_at_once(self) ==
    IF self.state # self.target_state
    THEN [self EXCEPT !.state = self.target_state]
    ELSE self

\* The first half of StateMachine::tick: the grace period countdown and the
\* switch to the target state.
advance_transition(self) ==
    IF self.state # self.target_state
    THEN IF self.transition_timer > 0
         THEN [self EXCEPT !.transition_timer = @ - 1]
         ELSE [self EXCEPT !.state = self.target_state]
    ELSE self

\* StateMachine::tick: the machine after the call, with the kind of the state
\* that was ticked and whether it asked for a transition.
StateMachine_tick(self, input) ==
    LET s1 == advance_transition(self)
        r == AppState_tick(s1.state, input)
    IN  [machine |-> IF r.request.some
                     THEN [state |-> r.state,
                           target_state |-> r.request.target,
                           transition_timer |-> 45]
                     ELSE [s1 EXCEPT !.state = r.state],
         ticked |-> s1.state.kind,
         requested |-> r.request.some]

----------------------------------------------------------------------------
(* The state machine: a World and the calls made on it                     *)

\* The record of the last call: its arguments, what it returned, the
\* packed map, the tiles, the registries and the cells of the successful
\* create_walker calls before the call, and for a tick
\* the walkers that entered a new square (events), the registries as the
\* walker loop left them and whether an assertion of kill() or rescue()
\* failed.
Log(op, x, y, direction, arg, ret) ==
    [op |-> op, x |-> x, y |-> y, direction |-> direction, arg |-> arg,
     ret |-> ret, events |-> <<>>, tiles_before |-> tiles,
     mice_end |-> <<>>, cats_end |-> <<>>,
     data_before |-> data, mice_before |-> mice, cats_before |-> cats,
     created_before |-> created, asserted |-> FALSE]

\* World::new(), with no call made yet
InitWorld ==
    /\ data = World_new.data
    /\ tiles = World_new.tiles
    /\ mice = World_new.mice
    /\ cats = World_new.cats
    /\ panicked = FALSE
    /\ last = [op |-> "new", x |-> 0, y |-> 0, direction |-> "Up", arg |-> "none",
               ret |-> "none", events |-> <<>>, tiles_before |-> World_new.tiles,
               mice_end |-> <<>>, cats_end |-> <<>>,
               data_before |-> World_new.data, mice_before |-> <<>>,
               cats_before |-> <<>>, created_before |-> {},
               asserted |-> FALSE]
    /\ placed = World_new.tiles
    /\ opposed = [c \in Cells |-> 0]
    /\ ticks = 0
    /\ ops = [walls |-> 0, tiles |-> 0, walkers |-> 0]
    /\ created = {}

\* StateMachine::new(), with no tick made yet. sm_obs records the number of
\* ticks, whether Start, A or B was ever pressed, the machine before the last
\* tick, the kind of state the last tick ticked, whether it asked for a
\* transition, the number of ticks since the last request (-1: none yet),
\* the input of the last tick and the number of requests made so far.
InitSM ==
    /\ sm = StateMachine_new
    /\ sm_obs = [n |-> 0, pressed_ever |-> FALSE, pre |-> StateMachine_new,
                 ticked |-> "none", requested |-> FALSE, since |-> -1,
                 input |-> InputState(FALSE, FALSE, FALSE, FALSE, FALSE),
                 requests |-> 0]

\* A walker on its own: Walker::new, the number of walk() calls made on it
\* and what the last one returned, the number of set_direction, kill and
\* rescue calls (ops), whether a set_direction changed its direction
\* (turned), the panic that ended the run, and the build (checked: with
\* overflow checks).
LoneWalker(x, y, direction, walker_type) ==
    [walker |-> Walker_new(x, y, direction, walker_type),
     first |-> Walker_new(x, y, direction, walker_type),
     calls |-> 0, result |-> "None", ops |-> 0, turned |-> FALSE,
     panic |-> "none", checked |-> FALSE]

InitLone == lone = LoneWalker(0, 0, "Right", "Mouse")

\* A call of a function that has no state: its name, its arguments and what
\* it returned. No call is made yet.
InitCalc == calc = [op |-> "none", args |-> <<>>, out |-> "none"]

Init == InitWorld /\ InitSM /\ InitLone /\ InitCalc

\* world.set_wall(x, y, direction, present)
SetWallCall(inputs, max) ==
    /\ ~panicked
    /\ ops.walls < max
    /\ \E a \in inputs :
        /\ data' = set_wall(data, a[1], a[2], a[3], a[4])
        /\ last' = Log("set_wall", a[1], a[2], a[3], a[4], "none")
    /\ ops' = [ops EXCEPT !.walls = @ + 1]
    /\ UNCHANGED <<tiles, mice, cats, panicked, placed, opposed, ticks, created>>
    /\ UNCHANGED <<sm, sm_obs, lone, calc>>

\* world.set_tile(x, y, tile_type) / world.set_arrow(x, y, tile_type)
SetTileCall(inputs, max) ==
    /\ ~panicked
    /\ ops.tiles < max
    /\ \E a \in inputs :
        /\ tiles' = set_tile_static(tiles, a[1], a[2], a[3])
        /\ placed' = [placed EXCEPT ![a[2] * WORLD_WIDTH + a[1]] = a[3]]
        /\ opposed' = [opposed EXCEPT ![a[2] * WORLD_WIDTH + a[1]] = 0]
        /\ last' = Log("set_tile", a[1], a[2], "Up", a[3], "none")
    /\ ops' = [ops EXCEPT !.tiles = @ + 1]
    /\ UNCHANGED <<data, mice, cats, panicked, ticks, created>>
    /\ UNCHANGED <<sm, sm_obs, lone, calc>>

\* world.create_walker(x, y, direction, walker_type). created collects the
\* cells of the calls that returned true.
CreateWalkerCall(inputs, max) ==
    /\ ~panicked
    /\ ops.walkers < max
    /\ \E a \in inputs :
        \E r \in {create_walker(data, mice, cats, a[1], a[2], a[3], a[4])} :
            /\ data' = r.data
            /\ mice' = r.mice
            /\ cats' = r.cats
            /\ panicked' = r.panic
            /\ last' = Log("create_walker", a[1], a[2], a[3], a[4], r.ret)
            /\ created' = IF r.ret THEN created \cup {<<a[1], a[2]>>}
                          ELSE created
    /\ ops' = [ops EXCEPT !.walkers = @ + 1]
    /\ UNCHANGED <<tiles, placed, opposed, ticks>>
    /\ UNCHANGED <<sm, sm_obs, lone, calc>>

\* The calls that load a level, made before the first tick
SetWall(inputs, max) == ticks = 0 /\ SetWallCall(inputs, max)

SetTile(inputs, max) == ticks = 0 /\ SetTileCall(inputs, max)

CreateWalker(inputs, max) == ticks = 0 /\ CreateWalkerCall(inputs, max)

\* The cats of a tick that entered cell c walking against the arrow placed
\* there.
OpposedEntries(events, c) ==
    LET a == try_from(placed[c])
    IN  Cardinality({i \in 1 .. Len(events) :
            /\ events[i].y * WORLD_WIDTH + events[i].x = c
            /\ events[i].walker_type = "Cat"
            /\ a.ok
            /\ events[i].dir_in = turn_around(a.dir)})

\* world.tick()
Tick(max) ==
    /\ ~panicked
    /\ ticks < max
    /\ \E r \in {tick(data, tiles, mice, cats)} :
           IF r.panic # "none"
           THEN /\ panicked' = TRUE
                /\ last' = [Log("tick", 0, 0, "Up", "none", "panic") EXCEPT
                               !.asserted = (r.panic = "assert")]
                /\ UNCHANGED <<tiles, mice, cats, opposed>>
           ELSE /\ panicked' = FALSE
                /\ tiles' = r.tiles
                /\ mice' = r.mice
                /\ cats' = r.cats
                /\ opposed' = IF r.events = <<>> THEN opposed
                              ELSE [c \in Cells |->
                                       opposed[c] + OpposedEntries(r.events, c)]
                /\ last' = [Log("tick", 0, 0, "Up", "none", r.ret) EXCEPT
                               !.events = r.events,
                               !.mice_end = r.mice_end,
                               !.cats_end = r.cats_end]
    /\ ticks' = ticks + 1
    /\ UNCHANGED <<data, placed, ops, created>>
    /\ UNCHANGED <<sm, sm_obs, lone, calc>>

\* walker.walk() on the lone walker, in the build of the run
Walk(max) ==
    /\ lone.panic = "none"
    /\ lone.calls < max
    /\ \E r \in {walk(lone.walker, lone.checked)} :
           lone' = IF "panic" \in DOMAIN r
                   THEN [lone EXCEPT !.calls = @ + 1, !.panic = r.panic]
                   ELSE [lone EXCEPT !.walker = r.walker,
                                     !.calls = @ + 1,
                                     !.result = r.result]
    /\ UNCHANGED <<data, tiles, mice, cats, panicked, last, placed, opposed,
                   ticks, ops, created>>
    /\ UNCHANGED <<sm, sm_obs, calc>>

\* walker.set_direction(direction) on the lone walker, between two walk()
\* calls whose number is a multiple of every
LoneSetDirection(max, every) ==
    /\ lone.panic = "none"
    /\ lone.ops < max
    /\ lone.calls % every = 0
    /\ \E direction \in Direction :
           lone' = [lone EXCEPT
                       !.walker = set_direction(@, direction),
                       !.ops = @ + 1,
                       !.turned = @ \/ direction # lone.walker.direction]
    /\ UNCHANGED <<data, tiles, mice, cats, panicked, last, placed, opposed,
                   ticks, ops, created>>
    /\ UNCHANGED <<sm, sm_obs, calc>>

\* walker.kill() on the lone walker: the assertion panics in every build
LoneKill(max, every) ==
    /\ lone.panic = "none"
    /\ lone.ops < max
    /\ lone.calls % every = 0
    /\ \E r \in {kill(lone.walker)} :
           lone' = IF r.panic
                   THEN [lone EXCEPT !.ops = @ + 1, !.panic = "assertion failed"]
                   ELSE [lone EXCEPT !.ops = @ + 1, !.walker = r.walker]
    /\ UNCHANGED <<data, tiles, mice, cats, panicked, last, placed, opposed,
                   ticks, ops, created>>
    /\ UNCHANGED <<sm, sm_obs, calc>>

\* walker.rescue() on the lone walker
LoneRescue(max, every) ==
    /\ lone.panic = "none"
    /\ lone.ops < max
    /\ lone.calls % every = 0
    /\ \E r \in {rescue(lone.walker)} :
           lone' = IF r.panic
                   THEN [lone EXCEPT !.ops = @ + 1, !.panic = "assertion failed"]
                   ELSE [lone EXCEPT !.ops = @ + 1, !.walker = r.walker]
    /\ UNCHANGED <<data, tiles, mice, cats, panicked, last, placed, opposed,
                   ticks, ops, created>>
    /\ UNCHANGED <<sm, sm_obs, calc>>

\* state_machine.tick(&input)
SMTick(inputs, max) ==
    /\ sm_obs.n < max
    /\ \E input \in inputs :
        \E r \in {StateMachine_tick(sm, input)} :
            /\ sm' = r.machine
            /\ sm_obs' = [n |-> sm_obs.n + 1,
                          pressed_ever |-> \/ sm_obs.pressed_ever
                                           \/ input.btn_start
                                           \/ input.btn_a
                                           \/ input.btn_b,
                          pre |-> sm,
                          ticked |-> r.ticked,
                          requested |-> r.requested,
                          since |-> IF r.requested THEN 0
                                    ELSE IF sm_obs.since < 0 THEN -1
                                    ELSE sm_obs.since + 1,
                          input |-> input,
                          requests |-> IF r.requested THEN sm_obs.requests + 1
                                       ELSE sm_obs.requests]
    /\ UNCHANGED <<data, tiles, mice, cats, panicked, last, placed, opposed,
                   ticks, ops, created>>
    /\ UNCHANGED <<lone, calc>>

\* The variables of the World, the StateMachine and the lone walker, which
\* a call of a function without state leaves alone
Stateful == <<data, tiles, mice, cats, panicked, last, placed, opposed, ticks,
              ops, created, sm, sm_obs, lone>>

\* a + b on the two FixedPoint operands drawn, in a build with or without
\* overflow checks
FPAdd ==
    /\ calc.op = "operands"
    /\ \E checked \in BOOLEAN :
           calc' = [calc EXCEPT !.op = "add",
                                !.out = add_assign(calc.args[1], calc.args[2],
                                                   checked)]
    /\ UNCHANGED Stateful

\* a - b on the two FixedPoint operands drawn, in a build with or without
\* overflow checks
FPSub ==
    /\ calc.op = "operands"
    /\ \E checked \in BOOLEAN :
           calc' = [calc EXCEPT !.op = "sub",
                                !.out = sub_assign(calc.args[1], calc.args[2],
                                                   checked)]
    /\ UNCHANGED Stateful

\* t.diminish() on each of the two tiles drawn
TileDiminish ==
    /\ calc.op = "tiles"
    /\ calc' = [calc EXCEPT !.op = "diminish",
                            !.out = <<diminish(calc.args[1]),
                                      diminish(calc.args[2])>>]
    /\ UNCHANGED Stateful

\* Direction::try_from(t) on each of the two tiles drawn
TileTryFrom ==
    /\ calc.op = "tiles"
    /\ calc' = [calc EXCEPT !.op = "try_from",
                            !.out = <<try_from(calc.args[1]),
                                      try_from(calc.args[2])>>]
    /\ UNCHANGED Stateful

\* One more turn of the direction drawn: args is the direction followed by
\* the turns made so far, out the direction they led to.
Turn(max) ==
    /\ calc.op = "turns"
    /\ Len(calc.args) <= max
    /\ \/ calc' = [calc EXCEPT !.args = Append(@, "turn_right"),
                               !.out = turn_right(@)]
       \/ calc' = [calc EXCEPT !.args = Append(@, "turn_left"),
                               !.out = turn_left(@)]
       \/ calc' = [calc EXCEPT !.args = Append(@, "turn_around"),
                               !.out = turn_around(@)]
    /\ UNCHANGED Stateful

----------------------------------------------------------------------------
(* Wall storage: any one wall of the grid is set or cleared                *)

MaxWallOps == 1

AllWalls == {<<x, y, d, p>> : x \in XS, y \in YS, d \in Direction, p \in BOOLEAN}

NextWalls == SetWall(AllWalls, MaxWallOps)

SpecWalls == Init /\ [][NextWalls]_vars

----------------------------------------------------------------------------
(* Holes and rockets: walkers on row 0 walk left into holes and rockets    *)

MaxWalkersHR == 2
MaxTilesHR == 2
MaxTicksHR == 182

WalkersHR == {<<x, 0, "Left", k>> : x \in 2 .. 4, k \in WalkerType}
TilesHR == {<<x, 0, t>> : x \in 1 .. 2, t \in {"Rocket", "Hole"}}

NextHR ==
    \/ SetTile(TilesHR, MaxTilesHR)
    \/ CreateWalker(WalkersHR, MaxWalkersHR)
    \/ Tick(MaxTicksHR)

SpecHR == Init /\ [][NextHR]_vars

----------------------------------------------------------------------------
(* Arrows: walkers in column 4 walk up into a tile placed at (4, 4)        *)

MaxWalkersAR == 3
MaxTilesAR == 1
MaxTicksAR == 272

WalkersAR == {<<4, y, "Up", k>> : y \in 5 .. 7, k \in WalkerType}
TilesAR == {<<4, 4, t>> : t \in {"Down", "DownHalf", "Left", "Rocket"}}

NextAR ==
    \/ SetTile(TilesAR, MaxTilesAR)
    \/ CreateWalker(WalkersAR, MaxWalkersAR)
    \/ Tick(MaxTicksAR)

SpecAR == Init /\ [][NextAR]_vars

----------------------------------------------------------------------------
(* Turns: walkers enter the cells (1, 0) and (0, 0) of the top left        *)
(* corner, with arrows placed there and walls added to (0, 0)              *)

MaxWallOpsTurn == 1
MaxWalkersTurn == 2
MaxTilesTurn == 1
MaxTicksTurn == 122

WallsTurn == {<<0, 0, "Right", TRUE>>, <<0, 0, "Down", TRUE>>}
WalkersTurn == {<<2, 0, "Left", k>> : k \in WalkerType}
                   \cup {<<0, 1, "Up", k>> : k \in WalkerType}
TilesTurn == {<<x, 0, t>> : x \in 0 .. 1, t \in {"Up", "Down", "Left", "Right"}}

NextTurn ==
    \/ SetWall(WallsTurn, MaxWallOpsTurn)
    \/ SetTile(TilesTurn, MaxTilesTurn)
    \/ CreateWalker(WalkersTurn, MaxWalkersTurn)
    \/ Tick(MaxTicksTurn)

SpecTurn == Init /\ [][NextTurn]_vars

----------------------------------------------------------------------------
(* Walking: one walker, of either type and in any direction, walks on its  *)
(* own                                                                     *)

MaxCalls == 180

MaxLoneOps == 2

\* set_direction, kill and rescue are called every so many walk() calls
CallsBetweenOps == 45

\* The walkers start in the grid, as the walkers of the tests and those
\* create_walker makes
LoneStarts == {LoneWalker(c[1], c[2], d, k) :
                  c \in {<<0, 0>>, <<5, 4>>}, d \in Direction, k \in WalkerType}

\* The walker of the run and its build
InitWalk ==
    /\ InitWorld /\ InitSM /\ InitCalc
    /\ lone \in {[l EXCEPT !.checked = c] : l \in LoneStarts, c \in BOOLEAN}

NextWalk ==
    \/ Walk(MaxCalls)
    \/ LoneSetDirection(MaxLoneOps, CallsBetweenOps)
    \/ LoneKill(MaxLoneOps, CallsBetweenOps)
    \/ LoneRescue(MaxLoneOps, CallsBetweenOps)

SpecWalk == InitWalk /\ [][NextWalk]_vars

----------------------------------------------------------------------------
(* Edges: walkers are created in the corners of the grid of World::new(),  *)
(* in any direction                                                        *)

MaxWalkersEdge == 2
MaxTilesEdge == 1
MaxTicksEdge == 92

WalkersEdge == {<<c[1], c[2], d, k>> :
                   c \in {<<0, 0>>, <<WORLD_WIDTH - 1, WORLD_HEIGHT - 1>>},
                   d \in Direction, k \in WalkerType}
TilesEdge == {<<1, 0, "Left">>, <<0, 1, "Up">>}

NextEdge ==
    \/ SetTile(TilesEdge, MaxTilesEdge)
    \/ CreateWalker(WalkersEdge, MaxWalkersEdge)
    \/ Tick(MaxTicksEdge)

SpecEdge == Init /\ [][NextEdge]_vars

----------------------------------------------------------------------------
(* Mixed calls: tiles are placed and mice are created on row 0 between     *)
(* ticks, at the ticks that are multiples of CallEvery                     *)

MaxWalkersMix == 3
MaxTilesMix == 2
MaxTicksMix == 122
CallEvery == 10

WalkersMix == {<<x, 0, "Left", "Mouse">> : x \in 2 .. 3}
TilesMix == {<<2, 0, "Rocket">>, <<1, 0, "Hole">>}

NextMix ==
    \/ ticks % CallEvery = 0 /\ SetTileCall(TilesMix, MaxTilesMix)
    \/ ticks % CallEvery = 0 /\ CreateWalkerCall(WalkersMix, MaxWalkersMix)
    \/ Tick(MaxTicksMix)

SpecMix == Init /\ [][NextMix]_vars

----------------------------------------------------------------------------
(* The application: the state machine is ticked with any of a few inputs   *)

MaxTicksSM == 125

InputsSM == {InputState(FALSE, FALSE, FALSE, FALSE, FALSE),
             InputState(TRUE, FALSE, FALSE, FALSE, FALSE),
             InputState(FALSE, TRUE, FALSE, FALSE, FALSE),
             InputState(FALSE, FALSE, TRUE, FALSE, FALSE),
             InputState(FALSE, FALSE, FALSE, TRUE, FALSE),
             InputState(FALSE, FALSE, FALSE, FALSE, TRUE),
             InputState(FALSE, FALSE, FALSE, TRUE, TRUE)}

NextSM == SMTick(InputsSM, MaxTicksSM)

SpecSM == Init /\ [][NextSM]_vars

----------------------------------------------------------------------------
(* Fixed point arithmetic: two operands with fractional parts in           *)
(* [-359, 359] are added or subtracted                                     *)

MaxValueFP == 2

FractionsFP == {-359, -358, -181, -180, -1, 0, 1, 180, 181, 358, 359}

\* The integer parts include the two ends of the i8 range
OperandsFP ==
    {FixedPoint_new(v, f) : v \in (-MaxValueFP .. MaxValueFP) \cup {-128, 127},
                            f \in FractionsFP}

InitFP ==
    /\ InitWorld /\ InitSM /\ InitLone
    /\ calc \in {[op |-> "operands", args |-> <<a, b>>, out |-> "none"] :
                    a \in OperandsFP, b \in OperandsFP}

NextFP == FPAdd \/ FPSub

SpecFP == InitFP /\ [][NextFP]_vars

----------------------------------------------------------------------------
(* Tiles: any two tile types are diminished or converted to a Direction    *)

InitTile ==
    /\ InitWorld /\ InitSM /\ InitLone
    /\ calc \in {[op |-> "tiles", args |-> <<t1, t2>>, out |-> "none"] :
                    t1 \in TileType, t2 \in TileType}

NextTile == TileDiminish \/ TileTryFrom

SpecTile == InitTile /\ [][NextTile]_vars

----------------------------------------------------------------------------
(* Directions: any direction is turned up to MaxTurns times                *)

MaxTurns == 4

InitDir ==
    /\ InitWorld /\ InitSM /\ InitLone
    /\ calc \in {[op |-> "turns", args |-> <<d>>, out |-> d] : d \in Direction}

NextDir == Turn(MaxTurns)

SpecDir == InitDir /\ [][NextDir]_vars

----------------------------------------------------------------------------
(* The puzzle! macro (world_macros/src/lib.rs): the tile block of the      *)
(* packed map is filled from the odd rows of the drawing. A cell of a row  *)
(* is modelled as the four characters <<t1, t2, a1, a2>> the macro reads   *)
(* at columns col * 5 + 1 .. col * 5 + 4.                                  *)

ENTITY_TYPE_ROCKET == 96
ENTITY_TYPE_HOLE == 128

ARROW_DIRECTION_UP == 0
ARROW_DIRECTION_DOWN == 1
ARROW_DIRECTION_LEFT == 2
ARROW_DIRECTION_RIGHT == 3

\* The outcome of a match arm: the byte written, or the compile_error! the
\* macro returns instead of a map
Written(byte) == [error |-> FALSE, byte |-> byte]
CompileError == [error |-> TRUE, byte |-> 0]

\* The match of extract_arrows on one cell
extract_arrows_match(byte, a1, a2) ==
    IF a1 = "A" /\ a2 = "<" THEN Written(BitOr(byte, ARROW_DIRECTION_LEFT))
    ELSE IF a1 = "A" /\ a2 = ">" THEN Written(BitOr(byte, ARROW_DIRECTION_RIGHT))
    ELSE IF a1 = "A" /\ a2 = "^" THEN Written(BitOr(byte, ARROW_DIRECTION_UP))
    ELSE IF a1 = "A" /\ a2 = "v" THEN Written(BitOr(byte, ARROW_DIRECTION_DOWN))
    ELSE IF a1 = " " /\ a2 = " " THEN Written(byte)
    ELSE CompileError

\* The match of extract_tiles on one cell
extract_tiles_match(byte, t1, t2) ==
    LET entity == IF t1 = "M" THEN ENTITY_TYPE_MOUSE ELSE ENTITY_TYPE_CAT
        direction == IF t2 = "<" THEN ENTITY_DIRECTION_LEFT
                     ELSE IF t2 = ">" THEN ENTITY_DIRECTION_RIGHT
                     ELSE IF t2 = "^" THEN ENTITY_DIRECTION_UP
                     ELSE ENTITY_DIRECTION_DOWN
    IN  IF t1 \in {"M", "C"} /\ t2 \in {"<", ">", "^", "v"}
            THEN Written(BitOr(BitOr(byte, entity), direction))
        ELSE IF t1 = "R" /\ t2 = " "
            THEN Written(BitOr(byte, ENTITY_TYPE_ROCKET))
        ELSE IF t1 = "H" /\ t2 = " " THEN Written(BitOr(byte, ENTITY_TYPE_HOLE))
        ELSE IF t1 = " " /\ t2 = " " THEN Written(byte)
        ELSE CompileError

\* extract_arrows over the cells of a row from column col on (columns are
\* 1-based here); the first cell in error ends the macro
RECURSIVE extract_arrows(_, _, _)
extract_arrows(row, output, col) ==
    IF col > Len(row) THEN [error |-> FALSE, output |-> output]
    ELSE LET m == extract_arrows_match(output[col], row[col][3], row[col][4])
         IN  IF m.error THEN [error |-> TRUE, output |-> output]
             ELSE extract_arrows(row, [output EXCEPT ![col] = m.byte], col + 1)

RECURSIVE extract_tiles(_, _, _)
extract_tiles(row, output, col) ==
    IF col > Len(row) THEN [error |-> FALSE, output |-> output]
    ELSE LET m == extract_tiles_match(output[col], row[col][1], row[col][2])
         IN  IF m.error THEN [error |-> TRUE, output |-> output]
             ELSE extract_tiles(row, [output EXCEPT ![col] = m.byte], col + 1)

\* The tile block the macro gives for a row: the output starts as zeroes,
\* the arrows are read first and the tiles are or-ed in after them
puzzle(row) ==
    LET arrows == extract_arrows(row, [c \in 1..Len(row) |-> 0], 1)
    IN  IF arrows.error THEN arrows
        ELSE extract_tiles(row, arrows.output, 1)

\* puzzle!(...) on the row drawn
Puzzle ==
    /\ calc.op = "row"
    /\ calc' = [calc EXCEPT !.op = "puzzle", !.out = puzzle(calc.args)]
    /\ UNCHANGED Stateful

\* Rows of two cells; the characters include one the macro refuses in each
\* position
CellsPuzzle ==
    {<<t1, t2, a1, a2>> : t1 \in {" ", "M", "R", "x"}, t2 \in {" ", "<", "v"},
                          a1 \in {" ", "A"}, a2 \in {" ", "<", ">", "^", "v"}}

InitPuzzle ==
    /\ InitWorld /\ InitSM /\ InitLone
    /\ calc \in {[op |-> "row", args |-> <<c1, c2>>, out |-> "none"] :
                    c1 \in CellsPuzzle, c2 \in CellsPuzzle}

NextPuzzle == Puzzle

SpecPuzzle == InitPuzzle /\ [][NextPuzzle]_vars

----------------------------------------------------------------------------
(* Two Worlds ticked side by side. The second World has the walls, the     *)
(* tiles and the walker registries of the first; the entity bytes of its   *)
(* data, which create_walker writes and nothing clears, hold other values  *)
(* (its walkers were created in other cells at other times).               *)

\* d with every byte after the wall block set to b
with_entity_bytes(d, b) ==
    [i \in 0 .. (DATA_SIZE - 1) |->
        IF i >= HEADER_SIZE + WALL_BLOCK_SIZE THEN b ELSE d[i]]

\* world.tick() on both Worlds; calc keeps what the tick of the second
\* World gives
TickBoth(bytes, max) ==
    /\ ~panicked
    /\ ticks < max
    /\ \E b \in bytes :
       \E rs \in {[w \in {"self", "other"} |->
                      tick(IF w = "self" THEN data
                           ELSE with_entity_bytes(data, b),
                           tiles, mice, cats)]} :
           /\ IF rs["self"].panic # "none"
              THEN /\ panicked' = TRUE
                   /\ last' = [Log("tick", 0, 0, "Up", "none", "panic") EXCEPT
                                  !.asserted = (rs["self"].panic = "assert")]
                   /\ UNCHANGED <<tiles, mice, cats, opposed>>
              ELSE /\ panicked' = FALSE
                   /\ tiles' = rs["self"].tiles
                   /\ mice' = rs["self"].mice
                   /\ cats' = rs["self"].cats
                   /\ opposed' =
                          IF rs["self"].events = <<>> THEN opposed
                          ELSE [c \in Cells |->
                                   opposed[c]
                                   + OpposedEntries(rs["self"].events, c)]
                   /\ last' = [Log("tick", 0, 0, "Up", "none", rs["self"].ret)
                                  EXCEPT !.events = rs["self"].events,
                                         !.mice_end = rs["self"].mice_end,
                                         !.cats_end = rs["self"].cats_end]
           /\ calc' = [op |-> "tick", args |-> <<b>>,
                       out |-> [panic |-> rs["other"].panic,
                                ret |-> rs["other"].ret,
                                tiles |-> rs["other"].tiles,
                                mice |-> rs["other"].mice,
                                cats |-> rs["other"].cats,
                                mice_end |-> rs["other"].mice_end,
                                cats_end |-> rs["other"].cats_end]]
    /\ ticks' = ticks + 1
    /\ UNCHANGED <<data, placed, ops, created>>
    /\ UNCHANGED <<sm, sm_obs, lone>>

MaxWalkersTwin == 2
MaxTilesTwin == 2
MaxTicksTwin == 90

WalkersTwin == {<<2, 0, "Left", "Mouse">>, <<3, 0, "Left", "Cat">>,
                <<3, 1, "Up", "Mouse">>}
TilesTwin == {<<1, 0, "Rocket">>, <<1, 0, "Hole">>, <<2, 0, "Down">>}

\* The entity bytes of the second World: none, a mouse heading right, a cat
\* heading down
EntityBytesTwin == {0, BitOr(ENTITY_TYPE_MOUSE, ENTITY_DIRECTION_RIGHT),
                    BitOr(ENTITY_TYPE_CAT, ENTITY_DIRECTION_DOWN)}

NextTwin ==
    \/ SetTile(TilesTwin, MaxTilesTwin)
    \/ CreateWalker(WalkersTwin, MaxWalkersTwin)
    \/ TickBoth(EntityBytesTwin, MaxTicksTwin)

SpecTwin == Init /\ [][NextTwin]_vars

----------------------------------------------------------------------------
(* FixedPoint::map_to_i16 (src/fixed_point.rs)                             *)

\* The / of Rust on integers, which rounds towards zero; b is not 0, and
\* not -1 where a is the least i32
TruncDiv(a, b) ==
    LET divisor == IF b < 0 THEN -b ELSE b
        floor == a \div divisor
        q == IF a < 0 /\ a % divisor # 0 THEN floor + 1 ELSE floor
    IN  IF b < 0 THEN -q ELSE q

InI16(v) == v >= -32768 /\ v <= 32767

MinI32 == -2147483647 - 1

\* a * b in i32, for b in the i16 range and a below 2^18 in size: whether
\* the product leaves the i32 range (overflow), and the product wrapped
\* into it (value). The size of the product is H * 2^16 + L.
MulI32(a, b) ==
    LET na == IF a < 0 THEN -a ELSE a
        nb == IF b < 0 THEN -b ELSE b
        negative == (a < 0) # (b < 0) /\ na # 0 /\ nb # 0
        L0 == (na % 65536) * nb
        H == (na \div 65536) * nb + L0 \div 65536
        L == L0 % 65536
        Hm == H % 65536
        Hu == IF ~negative THEN Hm
              ELSE IF L = 0 THEN (65536 - Hm) % 65536
              ELSE 65535 - Hm
        Lu == IF ~negative \/ L = 0 THEN L ELSE 65536 - L
    IN  [overflow |-> IF negative THEN H > 32768 \/ (H = 32768 /\ L > 0)
                      ELSE H >= 32768,
         value |-> (IF Hu >= 32768 THEN Hu - 65536 ELSE Hu) * 65536 + Lu]

\* self.map_to_i16(from_min, from_max, to_min, to_max). to_max - to_min is
\* an i16 subtraction, the product and the sum with to_min are i32: out of
\* range they panic when the build checks overflow (checked) and wrap when
\* it does not. The division panics in every build on a zero divisor and
\* on the least i32 divided by -1. The sum is cut to its low 16 bits.
map_to_i16(self, from_min, from_max, to_min, to_max, checked) ==
    LET to_delta == WrapI16(to_max - to_min)
        from_min_scaled == from_min.fractional + from_min.value * 360
        from_max_scaled == from_max.fractional + from_max.value * 360
        from_delta_scaled == from_max_scaled - from_min_scaled
        self_scaled == self.fractional + self.value * 360
        product == MulI32(self_scaled - from_min_scaled, to_delta)
        quotient == TruncDiv(product.value, from_delta_scaled)
        sum_overflows ==
            \/ to_min > 0 /\ quotient > 2147483647 - to_min
            \/ to_min < 0 /\ quotient < MinI32 - to_min
    IN  IF checked /\ ~InI16(to_max - to_min)
            THEN [panic |-> TRUE, value |-> 0]
        ELSE IF checked /\ product.overflow
            THEN [panic |-> TRUE, value |-> 0]
        ELSE IF from_delta_scaled = 0
            THEN [panic |-> TRUE, value |-> 0]
        ELSE IF product.value = MinI32 /\ from_delta_scaled = -1
            THEN [panic |-> TRUE, value |-> 0]
        ELSE IF checked /\ sum_overflows
            THEN [panic |-> TRUE, value |-> 0]
        ELSE [panic |-> FALSE,
              value |-> WrapI16(to_min + WrapI16(quotient % 65536))]

\* a.map_to_i16(from_min, from_max, to_min, to_max) on the operands drawn,
\* in a build with or without overflow checks
MapToI16 ==
    /\ calc.op = "mapping"
    /\ \E checked \in BOOLEAN :
           calc' = [calc EXCEPT !.op = "map_to_i16",
                                !.out = map_to_i16(calc.args[1], calc.args[2],
                                                   calc.args[3], calc.args[4],
                                                   calc.args[5], checked)]
    /\ UNCHANGED Stateful

MaxValueMap == 13

\* The values mapped: around the ranges of the tests of map_to_i16
SelvesMap ==
    {FixedPoint_new(v, f) :
        v \in (-2 .. MaxValueMap) \cup {-128, -10, 50, 60, 100, 110, 127},
        f \in {-359, -180, -1, 0, 1, 180, 359}}

\* <<from_min, from_max, to_min, to_max>>: the ranges of the tests, a range
\* of outputs wider than an i16, an empty range of inputs, and the whole
\* range of the integer part onto the upper half of the i16
RangesMap ==
    {<<FixedPoint_new(-128, 0), FixedPoint_new(127, 0), 0, 32767>>} \cup
    {<<FixedPoint_new(0, 0), FixedPoint_new(12, 0), 0, 160>>,
     <<FixedPoint_new(0, 0), FixedPoint_new(1, 0), 0, 100>>,
     <<FixedPoint_new(0, 0), FixedPoint_new(100, 0), 0, 10>>,
     <<FixedPoint_new(10, 0), FixedPoint_new(110, 0), 100, 1000>>,
     <<FixedPoint_new(0, 0), FixedPoint_new(12, 0), -20000, 20000>>,
     <<FixedPoint_new(6, 0), FixedPoint_new(6, 0), 0, 160>>}

InitMap ==
    /\ InitWorld /\ InitSM /\ InitLone
    /\ calc \in {[op |-> "mapping",
                  args |-> <<s, r[1], r[2], r[3], r[4]>>, out |-> "none"] :
                    s \in SelvesMap, r \in RangesMap}

NextMap == MapToI16

SpecMap == InitMap /\ [][NextMap]_vars

----------------------------------------------------------------------------
(* Walls set before the walkers: a level whose walls are drawn first, then *)
(* its walkers created, then ticked                                        *)

MaxWallOpsWalled == 2
MaxWalkersWalled == 2
MaxTicksWalled == 62

WallsWalled == {<<2, 0, "Left", TRUE>>, <<1, 0, "Left", TRUE>>,
                <<2, 0, "Down", TRUE>>}
WalkersWalled == {<<x, 0, "Left", k>> : x \in 2 .. 3, k \in WalkerType}

NextWalled ==
    \/ ops.walkers = 0 /\ SetWall(WallsWalled, MaxWallOpsWalled)
    \/ CreateWalker(WalkersWalled, MaxWalkersWalled)
    \/ Tick(MaxTicksWalled)

SpecWalled == Init /\ [][NextWalled]_vars

----------------------------------------------------------------------------
(* Calls that set no wall: tiles and arrows are placed and walkers created *)
(* between ticks, at the ticks that are multiples of CallEvery             *)

MaxWalkersFrame == 2
MaxTilesFrame == 1
MaxTicksFrame == 62

WalkersFrame == {<<2, 0, "Left", "Mouse">>, <<3, 0, "Left", "Cat">>}
TilesFrame == {<<1, 0, "Hole">>, <<1, 0, "Right">>}

NextFrame ==
    \/ ticks % CallEvery = 0 /\ SetTileCall(TilesFrame, MaxTilesFrame)
    \/ ticks % CallEvery = 0 /\ CreateWalkerCall(WalkersFrame, MaxWalkersFrame)
    \/ Tick(MaxTicksFrame)

SpecFrame == Init /\ [][NextFrame]_vars

----------------------------------------------------------------------------
(* A cell walled on all four sides: walls are set around cell (1, 0), an   *)
(* arrow may be placed in it and a walker is created next to it, facing it *)

MaxWallOpsBoxed == 3
MaxTilesBoxed == 1
MaxWalkersBoxed == 1
MaxTicksBoxed == 92

WallsBoxed == {<<1, 0, "Left", TRUE>>, <<2, 0, "Left", TRUE>>,
               <<1, 0, "Down", TRUE>>}
TilesBoxed == {<<1, 0, "Down">>, <<1, 0, "Right">>}
WalkersBoxed == {<<2, 0, "Left", k>> : k \in WalkerType}

NextBoxed ==
    \/ SetWall(WallsBoxed, MaxWallOpsBoxed)
    \/ SetTile(TilesBoxed, MaxTilesBoxed)
    \/ CreateWalker(WalkersBoxed, MaxWalkersBoxed)
    \/ Tick(MaxTicksBoxed)

SpecBoxed == Init /\ [][NextBoxed]_vars

----------------------------------------------------------------------------
(* Walkers that reach one cell in the same tick: a mouse and a cat walking *)
(* up column 4 and a cat walking left along row 4 all enter cell (4, 4),   *)
(* where an arrow may be placed, on tick 180                               *)

MaxWalkersOrder == 3
MaxTilesOrder == 1
MaxTicksOrder == 182

WalkersOrder == {<<4, 7, "Up", "Mouse">>, <<4, 6, "Up", "Cat">>,
                 <<6, 4, "Left", "Cat">>}
TilesOrder == {<<4, 4, "Down">>, <<4, 4, "DownHalf">>}

NextOrder ==
    \/ SetTile(TilesOrder, MaxTilesOrder)
    \/ CreateWalker(WalkersOrder, MaxWalkersOrder)
    \/ Tick(MaxTicksOrder)

SpecOrder == Init /\ [][NextOrder]_vars

----------------------------------------------------------------------------
(* read_input (platform/src/input/parsing.rs) and the ButtonState and      *)
(* InputState it fills (common/src/input.rs)                               *)

ButtonState_new == [down |-> FALSE, pressed |-> FALSE, released |-> FALSE]
ButtonState_up == [down |-> FALSE, pressed |-> FALSE, released |-> TRUE]
ButtonState_down == [down |-> TRUE, pressed |-> TRUE, released |-> FALSE]

InputState_new ==
    [js_x |-> 0, js_y |-> 0,
     js_up |-> ButtonState_new, js_down |-> ButtonState_new,
     js_left |-> ButtonState_new, js_right |-> ButtonState_new,
     btn_a |-> ButtonState_new, btn_b |-> ButtonState_new,
     btn_start |-> ButtonState_new, btn_select |-> ButtonState_new]

\* The loop over button_reader.events(): each change event sets its button
RECURSIVE button_events(_, _)
button_events(input_state, events) ==
    IF events = <<>> THEN input_state
    ELSE button_events(
             CASE Head(events) = "AUp" ->
                      [input_state EXCEPT !.btn_a = ButtonState_up]
               [] Head(events) = "ADown" ->
                      [input_state EXCEPT !.btn_a = ButtonState_down]
               [] Head(events) = "BUp" ->
                      [input_state EXCEPT !.btn_b = ButtonState_up]
               [] Head(events) = "BDown" ->
                      [input_state EXCEPT !.btn_b = ButtonState_down]
               [] Head(events) = "StartUp" ->
                      [input_state EXCEPT !.btn_start = ButtonState_up]
               [] Head(events) = "StartDown" ->
                      [input_state EXCEPT !.btn_start = ButtonState_down]
               [] Head(events) = "SelectUp" ->
                      [input_state EXCEPT !.btn_select = ButtonState_up]
               [] Head(events) = "SelectDown" ->
                      [input_state EXCEPT !.btn_select = ButtonState_down],
             Tail(events))

DEAD == 512
FLICK == 1536

\* The end of a flick: what the `if .. dead && last_output.<flick>.down`
\* blocks assign. The block of js_down assigns pressed and down true.
end_flick(button, in_dead, last_down, pressed, down) ==
    IF in_dead /\ last_down
    THEN [down |-> down, pressed |-> pressed, released |-> TRUE]
    ELSE button

\* The start of a flick
start_flick(button, in_flick, last_down) ==
    IF in_flick /\ ~last_down
    THEN [down |-> TRUE, pressed |-> TRUE, released |-> FALSE]
    ELSE button

\* read_input: events and last are what the button reader gives, x and y
\* the joystick reading of the ADC (0 .. 4095)
read_input(events, last_bits, x, y, last_output) ==
    LET s1 == button_events(InputState_new, events)
        s2 == [s1 EXCEPT !.btn_select.down = (BitAnd(last_bits, 1) # 0),
                         !.btn_start.down = (BitAnd(last_bits, 2) # 0),
                         !.btn_a.down = (BitAnd(last_bits, 4) # 0),
                         !.btn_b.down = (BitAnd(last_bits, 8) # 0)]
        js_x == WrapI16(WrapI16(x) - 2048)
        js_y == WrapI16(WrapI16(y) - 2048)
        js_in_up_flick == js_y > FLICK
        js_in_down_flick == js_y < -FLICK
        js_in_right_flick == js_x > FLICK
        js_in_left_flick == js_x < -FLICK
        js_in_up_dead == js_y < DEAD
        js_in_down_dead == js_y > -DEAD
        js_in_right_dead == js_x < DEAD
        js_in_left_dead == js_x > -DEAD
        copied == [s2 EXCEPT !.js_x = js_x, !.js_y = js_y,
                             !.js_up.down = last_output.js_up.down,
                             !.js_down.down = last_output.js_down.down,
                             !.js_right.down = last_output.js_right.down,
                             !.js_left.down = last_output.js_left.down]
        ended == [copied EXCEPT
                     !.js_up = end_flick(@, js_in_up_dead,
                                         last_output.js_up.down, FALSE, FALSE),
                     !.js_down = end_flick(@, js_in_down_dead,
                                           last_output.js_down.down, TRUE, TRUE),
                     !.js_right = end_flick(@, js_in_right_dead,
                                            last_output.js_right.down, FALSE, FALSE),
                     !.js_left = end_flick(@, js_in_left_dead,
                                           last_output.js_left.down, FALSE, FALSE)]
    IN  [ended EXCEPT
            !.js_up = start_flick(@, js_in_up_flick, last_output.js_up.down),
            !.js_down = start_flick(@, js_in_down_flick, last_output.js_down.down),
            !.js_right = start_flick(@, js_in_right_flick,
                                     last_output.js_right.down),
            !.js_left = start_flick(@, js_in_left_flick, last_output.js_left.down)]

\* One pass of the main loop: input = read_input(.., &last_input), the
\* input becomes last_input, and simulate ticks the state machine with it.
\* calc.args is the last_input the call was given and calc.out its result;
\* the state machine reads the pressed flags of the input.
ReadInput(buttons, readings, max) ==
    /\ calc.op \in {"last_input", "read_input"}
    /\ sm_obs.n < max
    /\ \E b \in buttons, r \in readings :
         LET out == read_input(b.events, b.last, r[1], r[2], calc.out)
             input == InputState(out.btn_start.pressed, out.btn_a.pressed,
                                 out.btn_b.pressed, out.js_up.pressed,
                                 out.js_down.pressed)
             t == StateMachine_tick(sm, input)
         IN  /\ calc' = [op |-> "read_input", args |-> <<calc.out>>,
                         out |-> out]
             /\ sm' = t.machine
             /\ sm_obs' = [n |-> sm_obs.n + 1,
                           pressed_ever |-> \/ sm_obs.pressed_ever
                                            \/ input.btn_start
                                            \/ input.btn_a
                                            \/ input.btn_b,
                           pre |-> sm,
                           ticked |-> t.ticked,
                           requested |-> t.requested,
                           since |-> IF t.requested THEN 0
                                     ELSE IF sm_obs.since < 0 THEN -1
                                     ELSE sm_obs.since + 1,
                           input |-> input,
                           requests |-> IF t.requested THEN sm_obs.requests + 1
                                        ELSE sm_obs.requests]
    /\ UNCHANGED <<data, tiles, mice, cats, panicked, last, placed, opposed,
                   ticks, ops, created, lone>>

\* What the button reader gives in a pass
ButtonsRead ==
    {[events |-> <<>>, last |-> 0],
     [events |-> <<"AUp", "BDown", "SelectDown", "StartDown", "SelectUp">>,
      last |-> 10]}

\* Joystick readings <<x, y>>: the stick pushed along one axis to the
\* centre and to the two sides of each threshold, or into a corner
AxisJS ==
    {2048 + v : v \in {-FLICK - 1, -FLICK, -DEAD, -DEAD + 1, 0,
                       DEAD - 1, DEAD, FLICK, FLICK + 1}}

ReadingsJS ==
    {<<x, 2048>> : x \in AxisJS} \cup {<<2048, y>> : y \in AxisJS}
        \cup {<<x, y>> : x, y \in {2048 - FLICK - 1, 2048 + FLICK + 1}}

InitInput ==
    /\ InitWorld /\ InitSM /\ InitLone
    /\ calc = [op |-> "last_input", args |-> <<>>, out |-> InputState_new]

MaxPasses == 2

NextInput == ReadInput(ButtonsRead, ReadingsJS, MaxPasses)

SpecInput == InitInput /\ [][NextInput]_vars

----------------------------------------------------------------------------
(* Properties of the wall storage                                          *)

\* The boundary edges of the grid
IsBoundary(x, y, d) ==
    \/ d = "Up" /\ y = 0
    \/ d = "Down" /\ y = WORLD_HEIGHT - 1
    \/ d = "Left" /\ x = 0
    \/ d = "Right" /\ x = WORLD_WIDTH - 1

\* C1: after set_wall(x, y, d, p), get_wall(x, y, d) is p, and the same edge
\* read from the toroidally adjacent cell in the opposite direction is p.
C1_SetWallSharedEdge ==
    last.op = "set_wall" =>
        /\ get_wall(last.x, last.y, last.direction) = last.arg
        /\ last.direction = "Down" =>
              get_wall(last.x, (last.y + 1) % WORLD_HEIGHT, "Up") = last.arg
        /\ last.direction = "Right" =>
              get_wall((last.x + 1) % WORLD_WIDTH, last.y, "Left") = last.arg
        /\ last.direction = "Up" =>
              get_wall(last.x, (last.y + WORLD_HEIGHT - 1) % WORLD_HEIGHT, "Down")
                  = last.arg
        /\ last.direction = "Left" =>
              get_wall((last.x + WORLD_WIDTH - 1) % WORLD_WIDTH, last.y, "Right")
                  = last.arg

\* A Right wall was set on the last column of an interior row and is read
\* back as the Left wall of column 0.
C1_Witness ==
    /\ last.op = "set_wall"
    /\ last.x = WORLD_WIDTH - 1
    /\ last.y = 4
    /\ last.direction = "Right"
    /\ last.arg = FALSE
    /\ ~get_wall(0, 4, "Left")

\* C2: in the World returned by World::new(), get_wall is true exactly on
\* the outer boundary edges.
C2_NewHasOutline ==
    last.op = "new" =>
        \A x \in XS, y \in YS, d \in Direction :
            get_wall(x, y, d) = IsBoundary(x, y, d)

\* The new World: a corner cell with two boundary walls and two open edges.
C2_Witness ==
    /\ last.op = "new"
    /\ get_wall(0, WORLD_HEIGHT - 1, "Left")
    /\ get_wall(0, WORLD_HEIGHT - 1, "Down")
    /\ ~get_wall(0, WORLD_HEIGHT - 1, "Up")
    /\ ~get_wall(0, WORLD_HEIGHT - 1, "Right")

----------------------------------------------------------------------------
(* Properties of the outcome of a tick                                     *)

Returned == last.op = "tick" /\ last.ret # "panic"

Events == 1 .. Len(last.events)

\* Event i is a walker of kind k entering a cell with tile t
Entered(i, k, t) == last.events[i].walker_type = k /\ last.events[i].tile = t

EveryMouseEnteredRocket ==
    \A m \in 1 .. Len(last.mice_end) :
        \E i \in Events : Entered(i, "Mouse", "Rocket") /\ last.events[i].idx = m

\* C3: a tick in which a cat enters a Rocket cell returns Lose, whatever
\* the mice do.
C3_CatInRocketLoses ==
    (Returned /\ \E i \in Events : Entered(i, "Cat", "Rocket")) => last.ret = "Lose"

\* C4: tick returns Win when the mouse registry is not empty, every mouse
\* was rescued in this tick and no cat was; it returns Win only when the
\* registry is not empty and every mouse in it is Rescued.
C4_WinIffAllMiceRescued ==
    Returned =>
        /\ ( /\ Len(last.mice_end) # 0
             /\ EveryMouseEnteredRocket
             /\ ~\E i \in Events : Entered(i, "Cat", "Rocket") )
           => last.ret = "Win"
        /\ last.ret = "Win" =>
             /\ Len(last.mice_end) # 0
             /\ \A m \in 1 .. Len(last.mice_end) :
                    last.mice_end[m].walker_state = "Rescued"

\* Two mice entered rockets in one tick, no cat did, and the tick returned
\* Win.
C4_Witness ==
    /\ Returned
    /\ Len(last.mice_end) = 2
    /\ EveryMouseEnteredRocket
    /\ last.ret = "Win"

\* C5: a mouse that enters a Hole cell becomes Dead, the tick returns Lose
\* and the mouse is not in the mouse registry when tick returns.
C5_HoleKillsMouse ==
    Returned =>
        \A i \in Events :
            Entered(i, "Mouse", "Hole") =>
                /\ last.mice_end[last.events[i].idx].walker_state = "Dead"
                /\ last.ret = "Lose"
                /\ mice = SelectSeq(last.mice_end, IsAlive)
                /\ Len(mice) < Len(last.mice_end)

\* A mouse entered a hole while another mouse stayed alive.
C5_Witness ==
    /\ Returned
    /\ \E i \in Events : Entered(i, "Mouse", "Hole")
    /\ Len(mice) = 1
    /\ last.ret = "Lose"

\* C6: a cat that enters a Hole cell is removed from the cat registry by
\* the end of the tick, and the tick returns NoChange if no mouse died, no
\* cat was rescued and not all mice were rescued.
C6_HoleKillsCat ==
    Returned =>
        \A i \in Events :
            Entered(i, "Cat", "Hole") =>
                /\ last.cats_end[last.events[i].idx].walker_state = "Dead"
                /\ cats = SelectSeq(last.cats_end, IsAlive)
                /\ Len(cats) < Len(last.cats_end)
                /\ ( /\ ~\E j \in Events : Entered(j, "Mouse", "Hole")
                     /\ ~\E j \in Events : Entered(j, "Cat", "Rocket")
                     /\ ~(Len(last.mice_end) # 0 /\ EveryMouseEnteredRocket) )
                   => last.ret = "NoChange"

\* A cat entered a hole while a mouse walked on, and the tick returned
\* NoChange.
C6_Witness ==
    /\ Returned
    /\ \E i \in Events : Entered(i, "Cat", "Hole")
    /\ Len(mice) = 1
    /\ cats = <<>>
    /\ last.ret = "NoChange"

----------------------------------------------------------------------------
(* Properties of the arrow check and the wall check                        *)

FullArrows == {"Up", "Down", "Left", "Right"}
HalfArrows == {"UpHalf", "DownHalf", "LeftHalf", "RightHalf"}

HalfOf == [Up |-> "UpHalf", Down |-> "DownHalf", Left |-> "LeftHalf",
           Right |-> "RightHalf"]
Opposite == [Up |-> "Down", Down |-> "Up", Left |-> "Right", Right |-> "Left"]
RightOf == [Up |-> "Right", Right |-> "Down", Down |-> "Left", Left |-> "Up"]
LeftOf == [Up |-> "Left", Left |-> "Down", Down |-> "Right", Right |-> "Up"]

\* The direction of an arrow tile, full or half
ArrowDir(t) == CHOOSE d \in Direction : t = d \/ t = HalfOf[d]

\* The tile one step down the sequence full, half, Empty
Diminished(t) ==
    IF t \in FullArrows THEN HalfOf[t] ELSE IF t \in HalfArrows THEN "Empty" ELSE t

\* Event i is a cat that entered an arrow walking against it
OpposedCat(i) ==
    /\ last.events[i].walker_type = "Cat"
    /\ last.events[i].tile \in FullArrows \cup HalfArrows
    /\ last.events[i].dir_in = Opposite[ArrowDir(last.events[i].tile)]

CellOf(i) == last.events[i].y * WORLD_WIDTH + last.events[i].x

\* C7: of the cats that enter a full arrow walking against it, the first
\* is turned and leaves the Half arrow, the second is turned and leaves
\* Empty, and a third keeps its direction and leaves the tile Empty.
C7_OpposedCatsDiminish ==
    /\ Returned =>
         \A i \in Events :
            /\ (OpposedCat(i) /\ last.events[i].tile \in FullArrows) =>
                  /\ last.events[i].tile_after = HalfOf[last.events[i].tile]
                  /\ last.events[i].dir_arrow = last.events[i].tile
            /\ (OpposedCat(i) /\ last.events[i].tile \in HalfArrows) =>
                  /\ last.events[i].tile_after = "Empty"
                  /\ last.events[i].dir_arrow = ArrowDir(last.events[i].tile)
            /\ (last.events[i].walker_type = "Cat" /\ last.events[i].tile = "Empty") =>
                  /\ last.events[i].tile_after = "Empty"
                  /\ last.events[i].dir_arrow = last.events[i].dir_in
    /\ \A c \in Cells :
         placed[c] \in FullArrows =>
            tiles[c] = CASE opposed[c] = 0 -> placed[c]
                         [] opposed[c] = 1 -> HalfOf[placed[c]]
                         [] OTHER -> "Empty"

\* The third cat has entered the cell of a full arrow that two cats before
\* it removed: it keeps walking Up and the tile is Empty.
C7_Witness ==
    /\ Returned
    /\ \E i \in Events :
          /\ last.events[i].walker_type = "Cat"
          /\ last.events[i].tile = "Empty"
          /\ placed[CellOf(i)] = "Down"
          /\ opposed[CellOf(i)] = 3
          /\ last.events[i].dir_in = "Up"
          /\ last.events[i].dir_out = "Up"
          /\ tiles[CellOf(i)] = "Empty"
    /\ Len(cats) = 3
    /\ cats[1].direction = "Down"
    /\ cats[2].direction = "Down"

\* The events of the last tick at cell c, in the order of the walker loop
EventsAt(c) == SelectSeq([i \in Events |-> i], LAMBDA i : CellOf(i) = c)

\* C8: a tick changes a tile only when a cat enters the cell walking
\* against the arrow in it, and then to the diminished tile; mice change
\* no tile, Empty, Rocket and Hole never change, and no tile becomes a full
\* arrow or an arrow of another direction.
C8_OnlyOpposedCatsChangeTiles ==
    Returned =>
        /\ \A i \in Events :
              last.events[i].tile_after =
                  IF OpposedCat(i) THEN Diminished(last.events[i].tile)
                  ELSE last.events[i].tile
        /\ \A c \in Cells :
              LET at == EventsAt(c)
              IN  IF at = <<>> THEN tiles[c] = last.tiles_before[c]
                  ELSE /\ last.events[at[1]].tile = last.tiles_before[c]
                       /\ \A k \in 1 .. (Len(at) - 1) :
                             last.events[at[k + 1]].tile = last.events[at[k]].tile_after
                       /\ last.events[at[Len(at)]].tile_after = tiles[c]
        /\ \A c \in Cells :
              tiles[c] # last.tiles_before[c] =>
                  /\ last.tiles_before[c] \in FullArrows \cup HalfArrows
                  /\ tiles[c] \notin FullArrows
                  /\ tiles[c] \in HalfArrows =>
                        ArrowDir(tiles[c]) = ArrowDir(last.tiles_before[c])

\* A mouse walking Up has entered the Down arrow that a cat had diminished
\* to DownHalf: the mouse is turned Down and the tile is still DownHalf.
C8_Witness ==
    /\ Returned
    /\ \E i \in Events :
          /\ last.events[i].walker_type = "Mouse"
          /\ last.events[i].tile = "DownHalf"
          /\ placed[CellOf(i)] = "Down"
          /\ last.events[i].dir_in = "Up"
          /\ last.events[i].dir_out = "Down"
          /\ tiles[CellOf(i)] = "DownHalf"

\* The first of d, its right turn, its left turn and its reverse with no
\* wall on that edge of (x, y); d if all four edges are walled.
FirstFree(x, y, d) ==
    IF ~get_wall(x, y, d) THEN d
    ELSE IF ~get_wall(x, y, RightOf[d]) THEN RightOf[d]
    ELSE IF ~get_wall(x, y, LeftOf[d]) THEN LeftOf[d]
    ELSE IF ~get_wall(x, y, Opposite[d]) THEN Opposite[d]
    ELSE d

\* C9: a walker that enters an arrow is set to the arrow's direction and
\* the wall check then starts from that direction.
C9_ArrowThenWalls ==
    Returned =>
        \A i \in Events :
            last.events[i].tile \in FullArrows \cup HalfArrows =>
                /\ last.events[i].dir_arrow = ArrowDir(last.events[i].tile)
                /\ last.events[i].dir_out =
                      FirstFree(last.events[i].x, last.events[i].y,
                                ArrowDir(last.events[i].tile))

\* A walker walking Left has entered an Up arrow under the top wall and
\* leaves it walking Right.
C9_Witness ==
    /\ Returned
    /\ \E i \in Events :
          /\ last.events[i].tile = "Up"
          /\ last.events[i].x = 1
          /\ last.events[i].y = 0
          /\ last.events[i].dir_in = "Left"
          /\ last.events[i].dir_out = "Right"

\* C10: the wall check sets the direction d of a walker in (x, y) to the
\* first of d, turn_right(d), turn_left(d), turn_around(d) without a wall:
\* walls ahead and right give the left turn, walls ahead, left and right
\* the reverse.
C10_WallCheckPriority ==
    Returned =>
        \A i \in Events :
            LET e == last.events[i]
                d == e.dir_arrow
            IN  /\ e.dir_out = FirstFree(e.x, e.y, d)
                /\ ( /\ get_wall(e.x, e.y, d)
                     /\ get_wall(e.x, e.y, RightOf[d])
                     /\ ~get_wall(e.x, e.y, LeftOf[d]) ) => e.dir_out = LeftOf[d]
                /\ ( /\ get_wall(e.x, e.y, d)
                     /\ get_wall(e.x, e.y, RightOf[d])
                     /\ get_wall(e.x, e.y, LeftOf[d])
                     /\ ~get_wall(e.x, e.y, Opposite[d]) ) => e.dir_out = Opposite[d]

\* In one tick a walker met walls ahead and right and turned left, and
\* another met walls ahead, left and right and turned around.
C10_Witness ==
    /\ Returned
    /\ \E i \in Events :
          LET e == last.events[i]
          IN  /\ e.tile = "Empty"
              /\ get_wall(e.x, e.y, e.dir_in)
              /\ get_wall(e.x, e.y, RightOf[e.dir_in])
              /\ ~get_wall(e.x, e.y, LeftOf[e.dir_in])
              /\ e.dir_out = LeftOf[e.dir_in]
    /\ \E i \in Events :
          LET e == last.events[i]
          IN  /\ e.tile = "Empty"
              /\ get_wall(e.x, e.y, e.dir_in)
              /\ get_wall(e.x, e.y, RightOf[e.dir_in])
              /\ get_wall(e.x, e.y, LeftOf[e.dir_in])
              /\ e.dir_out = Opposite[e.dir_in]

----------------------------------------------------------------------------
(* Properties of a walker walking on its own                               *)

\* The number of walk() calls a walker of each type takes to cross a square
CallsPerSquare(walker_type) == IF walker_type = "Mouse" THEN 60 ELSE 90

\* The integer coordinate a walker moves along, signed so that it grows
Travelled(first, walker) ==
    CASE first.direction = "Up" -> integer_part(first.y) - integer_part(walker.y)
      [] first.direction = "Down" -> integer_part(walker.y) - integer_part(first.y)
      [] first.direction = "Left" -> integer_part(first.x) - integer_part(walker.x)
      [] first.direction = "Right" -> integer_part(walker.x) - integer_part(first.x)

\* The walker has walked and no set_direction call changed its direction
KeptDirection == lone.calls > 0 /\ ~lone.turned

\* C11: a walker that keeps its direction reports NewSquare on exactly every
\* 60th walk() call if it is a Mouse and every 90th if it is a Cat, and None
\* on every other call, in each of the four directions and in both builds,
\* whether or not it was killed or rescued on the way; each NewSquare is
\* one more square travelled.
C11_NewSquareEvery60Or90 ==
    KeptDirection =>
        /\ lone.result = "NewSquare" <=>
               lone.calls % CallsPerSquare(lone.first.walker_type) = 0
        /\ lone.result \in {"NewSquare", "None"}
        /\ Travelled(lone.first, lone.walker) =
               lone.calls \div CallsPerSquare(lone.first.walker_type)
        /\ lone.walker.direction = lone.first.direction

\* A cat that was killed on its way has walked 180 times upwards
C11_Witness ==
    /\ lone.calls = 180
    /\ lone.first.walker_type = "Cat"
    /\ lone.first.direction = "Up"
    /\ lone.walker.walker_state = "Dead"
    /\ ~lone.turned
    /\ lone.result = "NewSquare"
    /\ Travelled(lone.first, lone.walker) = 2

----------------------------------------------------------------------------
(* Properties of the walkers of a tick                                     *)

\* The cell of a walker: the integer parts of its position
IntCell(w) == <<integer_part(w.x), integer_part(w.y)>>

\* Walker w of a registry stayed in its cell during the last tick
StayedInCell(before, end, i) == IntCell(end[i]) = IntCell(before[i])

\* Only the position of the walker differs
OnlyPositionChanged(b, e) ==
    /\ [e EXCEPT !.x = b.x, !.y = b.y] = b
    /\ <<e.x, e.y>> # <<b.x, b.y>>

\* Some walker of the registry entered the cell with index c in the last tick
EnteredCell(before, end, c) ==
    \E i \in 1 .. Len(end) :
        /\ ~StayedInCell(before, end, i)
        /\ IntCell(end[i])[2] * WORLD_WIDTH + IntCell(end[i])[1] = c

\* C12: in a tick, a walker that stays in its integer cell has only its
\* position changed (same direction, same state), and a tile changes only at
\* a cell that some walker entered in that tick.
C12_OnlyPositionChangesInsideCell ==
    Returned =>
        /\ \A i \in 1 .. Len(last.mice_end) :
               StayedInCell(last.mice_before, last.mice_end, i) =>
                   OnlyPositionChanged(last.mice_before[i], last.mice_end[i])
        /\ \A i \in 1 .. Len(last.cats_end) :
               StayedInCell(last.cats_before, last.cats_end, i) =>
                   OnlyPositionChanged(last.cats_before[i], last.cats_end[i])
        /\ \A c \in Cells :
               tiles[c] # last.tiles_before[c] =>
                   \/ EnteredCell(last.mice_before, last.mice_end, c)
                   \/ EnteredCell(last.cats_before, last.cats_end, c)

\* A tick in which a mouse stays in its cell, walking on in the direction a
\* wall turned it to earlier, while a cat enters a cell and diminishes the
\* arrow there.
C12_Witness ==
    /\ Returned
    /\ \E i \in 1 .. Len(last.mice_end) :
           /\ StayedInCell(last.mice_before, last.mice_end, i)
           /\ last.mice_end[i].direction = "Right"
    /\ \E i \in 1 .. Len(last.cats_end) :
           /\ ~StayedInCell(last.cats_before, last.cats_end, i)
           /\ last.cats_end[i].direction # last.cats_before[i].direction
    /\ tiles # last.tiles_before

\* C13: every walker in the mouse registry and in the cat registry is Alive;
\* after a tick the registries are the walkers the walker loop left Alive, in
\* order, and the outcome was computed from the walkers before they were
\* removed (a mouse that died makes the tick return Lose, mice that were all
\* rescued make it return Win).
C13_RegistriesHoldAliveWalkers ==
    /\ \A i \in 1 .. Len(mice) : mice[i].walker_state = "Alive"
    /\ \A i \in 1 .. Len(cats) : cats[i].walker_state = "Alive"
    /\ Returned =>
        /\ mice = SelectSeq(last.mice_end, IsAlive)
        /\ cats = SelectSeq(last.cats_end, IsAlive)
        /\ AnyState(last.mice_end, "Dead") => last.ret = "Lose"
        /\ (last.mice_end # <<>> /\ AllState(last.mice_end, "Rescued")) =>
               last.ret = "Win"

\* A tick in which a mouse died while a cat walked on: the tick returned
\* Lose, the mouse is gone from its registry and the cat is kept.
C13_Witness ==
    /\ Returned
    /\ AnyState(last.mice_end, "Dead")
    /\ last.ret = "Lose"
    /\ Len(mice) < Len(last.mice_end)
    /\ Len(cats) = 1

\* The events of the last tick in which kill() or rescue() was called
Terminal(e) == e.tile \in {"Hole", "Rocket"}

\* The walker an event is about, as it was before the tick
WalkerBefore(e) ==
    IF e.walker_type = "Mouse" THEN last.mice_before[e.idx]
    ELSE last.cats_before[e.idx]

\* C14: whatever the order of create_walker, set_tile and tick calls, kill()
\* and rescue() are only called on a walker that is Alive, so their
\* assertion never fails.
C14_KillAndRescueOnlyAlive ==
    /\ ~last.asserted
    /\ \A i \in 1 .. Len(last.events) :
           Terminal(last.events[i]) =>
               WalkerBefore(last.events[i]).walker_state = "Alive"

\* A mouse created between ticks enters a hole or rocket that was placed
\* between ticks.
C14_Witness ==
    /\ Returned
    /\ ticks % 60 # 0
    /\ \E i \in 1 .. Len(last.events) :
           /\ Terminal(last.events[i])
           /\ last.events[i].state \in {"Dead", "Rescued"}

----------------------------------------------------------------------------
(* Properties of walkers at the edge of the grid                           *)

\* The last tick aborted on a tile or wall lookup outside the grid
LookupOutOfRange == last.op = "tick" /\ last.ret = "panic" /\ ~last.asserted

\* C15: with the walls of World::new(), wherever and in whatever direction
\* walkers are created and whatever tiles are placed, every walker of the
\* registries stays in a cell of the grid and no tick looks up a tile or a
\* wall outside the grid.
C15_WalkersStayInGrid ==
    /\ \A i \in 1 .. Len(mice) : InGrid(IntCell(mice[i])[1], IntCell(mice[i])[2])
    /\ \A i \in 1 .. Len(cats) : InGrid(IntCell(cats[i])[1], IntCell(cats[i])[2])
    /\ ~LookupOutOfRange

----------------------------------------------------------------------------
(* Properties of create_walker                                             *)

\* The cell the last call was made on
CallCell == <<last.x, last.y>>

\* Some walker of the registries, as they were before the last call, was in
\* the cell the call was made on
OverlapsWalker ==
    \/ \E i \in 1 .. Len(last.mice_before) : IntCell(last.mice_before[i]) = CallCell
    \/ \E i \in 1 .. Len(last.cats_before) : IntCell(last.cats_before[i]) = CallCell

\* C16: create_walker on a cell where an earlier create_walker succeeded
\* returns false and leaves the registries and the packed data as they were.
C16_SecondCreateRejected ==
    (last.op = "create_walker" /\ CallCell \in last.created_before) =>
        /\ last.ret = FALSE
        /\ mice = last.mice_before
        /\ cats = last.cats_before
        /\ data = last.data_before
        /\ ~panicked

\* A second create_walker on a cell, made after the mouse created there
\* walked into the next cell.
C16_Witness ==
    /\ last.op = "create_walker"
    /\ CallCell \in last.created_before
    /\ last.ret = FALSE
    /\ mice # <<>>
    /\ ~OverlapsWalker

\* C17: create_walker returns false exactly when a walker of the registries
\* is in the cell at the time of the call, and true when none is.
C17_RejectedIffOverlap ==
    last.op = "create_walker" => (last.ret = FALSE <=> OverlapsWalker)

\* C18: the registries hold at most as many walkers as there are cells on
\* which create_walker succeeded, which are cells of the grid, so at most 108
\* walkers, and no push overflows a registry.
C18_AtMostOneWalkerPerCell ==
    /\ Len(mice) + Len(cats) <= Cardinality(created)
    /\ created \subseteq XS \X YS
    /\ Cardinality(created) <= 108
    /\ Len(mice) + Len(cats) <= 108
    /\ ~(last.op = "create_walker" /\ panicked)

\* Two mice were created, one was removed by a tick, and a create_walker
\* call made afterwards was turned down.
C18_Witness ==
    /\ last.op = "create_walker"
    /\ last.ret = FALSE
    /\ Cardinality(created) = 2
    /\ Len(mice) = 1
    /\ ticks > 0

----------------------------------------------------------------------------
(* Properties of the application state machine                             *)

\* C19: ticked from StateMachine::new() with Start, A and B never pressed,
\* the Intro state asks for the transition to Menu on the 120th tick, when
\* its frame counter reaches 120.
C19_IntroTimesOut ==
    (sm_obs.n = 120 /\ ~sm_obs.pressed_ever) =>
        /\ sm.state.frame = 120
        /\ sm_obs.requested
        /\ sm.target_state.kind = "Menu"

\* C20: a transition requested in a tick starts a countdown from 45. On each
\* of the next 45 ticks the outgoing state is still the current state and is
\* the one ticked, the target is not ticked, and the timer goes down by one;
\* the state becomes the target on the tick after that, the first one that
\* finds state # target_state with the timer at 0, and on no other tick.
C20_GracePeriod ==
    /\ sm_obs.since = 0 =>
           /\ sm.transition_timer = 45
           /\ sm.state.kind = sm_obs.ticked
           /\ sm.state # sm.target_state
    /\ sm_obs.since \in 1 .. 45 =>
           /\ sm.transition_timer = 45 - sm_obs.since
           /\ sm_obs.pre.transition_timer > 0
           /\ sm.state.kind = sm_obs.pre.state.kind
           /\ sm_obs.ticked = sm_obs.pre.state.kind
           /\ sm_obs.ticked # sm.target_state.kind
           /\ sm.target_state = sm_obs.pre.target_state
    /\ sm_obs.since = 46 =>
           /\ sm_obs.pre.transition_timer = 0
           /\ sm_obs.pre.state # sm_obs.pre.target_state
           /\ sm.state.kind = sm_obs.pre.target_state.kind
           /\ sm_obs.ticked = sm_obs.pre.target_state.kind
    /\ (sm_obs.n > 0 /\ sm.state.kind # sm_obs.pre.state.kind) =>
           /\ sm_obs.since = 46
           /\ sm_obs.pre.transition_timer = 0
           /\ sm_obs.pre.state # sm_obs.pre.target_state

\* The tick after the 45 ticks of the grace period: the Menu state has just
\* become the current state and was ticked.
C20_Witness ==
    /\ sm_obs.since = 46
    /\ sm_obs.pre.state.kind = "Intro"
    /\ sm.state.kind = "Menu"
    /\ sm_obs.ticked = "Menu"

\* Start, A or B is pressed in an input
Pressed(input) == input.btn_start \/ input.btn_a \/ input.btn_b

\* C21: the Intro state asks for the transition to Menu at most once. Presses
\* of Start, A or B during the grace period make no second request and do not
\* set transition_timer back to 45, so the Menu state is the current state
\* from the 46th tick after the first request on.
C21_OneRequest ==
    /\ sm_obs.requests <= 1
    /\ sm_obs.requested => sm_obs.since = 0
    /\ sm_obs.since \in 1 .. 45 =>
           /\ ~sm_obs.requested
           /\ sm.transition_timer = 45 - sm_obs.since
           /\ sm.state.kind = "Intro"
           /\ sm.target_state = MenuState(0, 10)
    /\ sm_obs.since >= 46 => sm.state.kind = "Menu"

\* Start, A or B is pressed on the last tick of the grace period, and the
\* timer still reaches 0 on that tick.
C21_Witness ==
    /\ sm_obs.since = 45
    /\ Pressed(sm_obs.input)
    /\ sm.transition_timer = 0
    /\ sm_obs.requests = 1

\* C22: in the Menu state a tick with js_down pressed moves map_index one
\* step forward, a tick with js_up pressed moves it one step back, and a tick
\* with no joystick press keeps the map_index the earlier ticks selected
\* (stated away from the two ends, where the index wraps).
C22_MenuSelectionKept ==
    (sm_obs.pre.state.kind = "Menu" /\ sm.state.kind = "Menu") =>
        /\ (~sm_obs.input.js_up /\ ~sm_obs.input.js_down) =>
               sm.state.map_index = sm_obs.pre.state.map_index
        /\ (sm_obs.input.js_down /\ ~sm_obs.input.js_up
               /\ sm_obs.pre.state.map_index < sm_obs.pre.state.map_count - 1) =>
               sm.state.map_index = sm_obs.pre.state.map_index + 1
        /\ (sm_obs.input.js_up /\ ~sm_obs.input.js_down
               /\ sm_obs.pre.state.map_index > 0) =>
               sm.state.map_index = sm_obs.pre.state.map_index - 1

----------------------------------------------------------------------------
(* Properties of FixedPoint                                                *)

\* A FixedPoint on the 360ths scale
Scaled(p) == 360 * p.value + p.fractional

\* A call that panicked in place of giving a FixedPoint
IsPanic(out) == "panic" \in DOMAIN out

InI8(v) == v >= -128 /\ v <= 127

\* The integer part a + b comes to, before it is stored in the i8
IntegerOfSum(a, b) ==
    a.value + b.value + (IF a.fractional + b.fractional >= 360 THEN 1 ELSE 0)

\* The integer part a - b comes to, before it is stored in the i8
IntegerOfDifference(a, b) ==
    a.value - b.value - (IF a.fractional - b.fractional <= -360 THEN 1 ELSE 0)

\* C23: for operands with fractional parts in [-359, 359], a + b and a - b,
\* where they give a result, have a fractional part in [-359, 359] and,
\* where the integer part fits the i8, stand for the sum and the difference
\* (what the fractional part loses is carried into the integer part).
C23_FractionStaysInRange ==
    /\ (calc.op = "add" /\ ~IsPanic(calc.out)) =>
           /\ calc.out.fractional \in -359 .. 359
           /\ (/\ InI8(calc.args[1].value + calc.args[2].value)
               /\ InI8(IntegerOfSum(calc.args[1], calc.args[2]))) =>
                  Scaled(calc.out) = Scaled(calc.args[1]) + Scaled(calc.args[2])
    /\ (calc.op = "sub" /\ ~IsPanic(calc.out)) =>
           /\ calc.out.fractional \in -359 .. 359
           /\ (/\ InI8(calc.args[1].value - calc.args[2].value)
               /\ InI8(IntegerOfDifference(calc.args[1], calc.args[2]))) =>
                  Scaled(calc.out) = Scaled(calc.args[1]) - Scaled(calc.args[2])

----------------------------------------------------------------------------
(* Properties of TileType and Direction                                    *)

\* C24: diminish maps a full arrow to the half arrow of its direction, a half
\* arrow to Empty, and Empty, Rocket and Hole to themselves; the conversion
\* to Direction succeeds for the eight arrows only, gives the direction of
\* the arrow, and gives a full arrow and its half arrow the same Direction.
C24_DiminishAndConversion ==
    /\ calc.op = "diminish" =>
           \A i \in 1 .. 2 :
               /\ calc.args[i] \in FullArrows => calc.out[i] = HalfOf[calc.args[i]]
               /\ calc.args[i] \in HalfArrows => calc.out[i] = "Empty"
               /\ calc.args[i] \in {"Empty", "Rocket", "Hole"} =>
                      calc.out[i] = calc.args[i]
    /\ calc.op = "try_from" =>
           /\ \A i \in 1 .. 2 :
                  /\ calc.out[i].ok <=> calc.args[i] \in FullArrows \cup HalfArrows
                  /\ calc.out[i].ok => calc.out[i].dir = ArrowDir(calc.args[i])
           /\ (calc.args[1] \in FullArrows /\ calc.args[2] = HalfOf[calc.args[1]]) =>
                  (calc.out[1].ok /\ calc.out[2] = calc.out[1])

C24_Witness ==
    /\ calc.op = "try_from"
    /\ calc.args = <<"Left", "LeftHalf">>
    /\ calc.out[1] = [ok |-> TRUE, dir |-> "Left"]
    /\ calc.out[2] = calc.out[1]

\* The turns made on the direction drawn
Turns == Tail(calc.args)

\* The directions in clockwise order, counted from 0
Clockwise == <<"Up", "Right", "Down", "Left">>
ClockIndex(d) == CHOOSE i \in 0 .. 3 : Clockwise[i + 1] = d

\* The quarter turns to the right that a sequence of turns adds up to
RECURSIVE QuarterTurns(_)
QuarterTurns(ts) ==
    IF ts = <<>> THEN 0
    ELSE QuarterTurns(Tail(ts))
             + (CASE Head(ts) = "turn_right" -> 1
                  [] Head(ts) = "turn_around" -> 2
                  [] Head(ts) = "turn_left" -> 3)

\* C25: turn_left undoes turn_right and turn_right undoes turn_left, two
\* turn_right and two turn_left are both turn_around, turn_around undoes
\* itself, and four turn_right lead back: any sequence of turns leads to the
\* direction that many quarter turns clockwise of the first.
C25_TurnsFormCyclicGroup ==
    calc.op = "turns" =>
        /\ Turns \in {<<"turn_right", "turn_left">>, <<"turn_left", "turn_right">>,
                      <<"turn_around", "turn_around">>,
                      <<"turn_right", "turn_right", "turn_right", "turn_right">>} =>
               calc.out = calc.args[1]
        /\ Turns \in {<<"turn_right", "turn_right">>, <<"turn_left", "turn_left">>,
                      <<"turn_around">>} =>
               calc.out = Opposite[calc.args[1]]
        /\ Turns = <<"turn_right">> => calc.out = RightOf[calc.args[1]]
        /\ Turns = <<"turn_left">> => calc.out = LeftOf[calc.args[1]]
        /\ calc.out = Clockwise[((ClockIndex(calc.args[1]) + QuarterTurns(Turns)) % 4) + 1]

C25_Witness ==
    /\ calc.op = "turns"
    /\ calc.args = <<"Down", "turn_right", "turn_right", "turn_right", "turn_right">>
    /\ calc.out = "Down"

----------------------------------------------------------------------------
(* The packed map of the puzzle! macro                                     *)

\* The arrow direction code of the spec's byte layout
ArrowCode(a2) ==
    IF a2 = "^" THEN 0 ELSE IF a2 = "v" THEN 1 ELSE IF a2 = "<" THEN 2 ELSE 3

\* C26: in the tile block the puzzle! macro produces, the byte of every cell
\* drawn with an arrow ('A' and one of < > ^ v) has bit 2 set and bits 1-0
\* equal to the direction code of the arrow, and the byte of every cell
\* drawn without an arrow has bit 2 clear.
C26_ArrowPresentBit ==
    (calc.op = "puzzle" /\ ~calc.out.error) =>
        \A col \in 1..Len(calc.args) :
            IF calc.args[col][3] = "A"
            THEN /\ BitAnd(calc.out.output[col], ARROW_PRESENT_MASK) # 0
                 /\ BitAnd(calc.out.output[col], ARROW_DIRECTION_MASK)
                        = ArrowCode(calc.args[col][4])
            ELSE BitAnd(calc.out.output[col], ARROW_PRESENT_MASK) = 0

----------------------------------------------------------------------------
(* Determinism of World::tick                                              *)

\* C27: two Worlds with the same walls, tiles and walker registries that
\* are each ticked once end with the same tiles and registries and return
\* the same WorldStateChange (or both panic), whatever the other bytes of
\* their data hold; as the tick leaves data alone, the two Worlds stay
\* equal along any number of ticks.
C27_TickDeterministic ==
    calc.op = "tick" =>
        IF panicked THEN calc.out.panic # "none"
        ELSE /\ calc.out.panic = "none"
             /\ calc.out.ret = last.ret
             /\ calc.out.tiles = tiles
             /\ calc.out.mice = mice
             /\ calc.out.cats = cats
             /\ calc.out.mice_end = last.mice_end
             /\ calc.out.cats_end = last.cats_end
             /\ data = last.data_before

\* Two Worlds whose data differ were ticked more than once, a walker of
\* each came into a new cell in this tick and the tick returned a change
C27_Witness ==
    /\ calc.op = "tick"
    /\ ~panicked
    /\ ticks >= 2
    /\ with_entity_bytes(data, calc.args[1]) # data
    /\ last.events # <<>>
    /\ last.ret # "NoChange"
    /\ calc.out.ret = last.ret
    /\ calc.out.mice = mice

----------------------------------------------------------------------------
(* Cats and mice in one cell                                               *)

\* Mouse i and cat j were in different cells before the last tick and are
\* in the same cell at its end
CameTogether(i, j) ==
    /\ IntCell(last.mice_before[i]) # IntCell(last.cats_before[j])
    /\ IntCell(last.mice_end[i]) = IntCell(last.cats_end[j])

\* C28: when a cat and a mouse come to occupy the same cell during a tick,
\* the mouse is killed and the tick returns Lose.
C28_CatKillsMouse ==
    Returned =>
        \A i \in 1 .. Len(last.mice_end), j \in 1 .. Len(last.cats_end) :
            CameTogether(i, j) =>
                /\ last.mice_end[i].walker_state = "Dead"
                /\ last.ret = "Lose"

----------------------------------------------------------------------------
(* The linear mapping of a FixedPoint                                      *)

\* The product a * b is in the i32 range
FitsI32(a, b) ==
    \/ a = 0
    \/ (IF b < 0 THEN -b ELSE b) <= 2147483647 \div (IF a < 0 THEN -a ELSE a)

\* The value a call of map_to_i16 is to give by the formula, the division
\* rounding towards zero
Interpolated(s, fmin, fmax, to_min, to_max) ==
    to_min + TruncDiv((s - fmin) * (to_max - to_min), fmax - fmin)

\* C29: map_to_i16 with from_min < from_max returns
\* to_min + ((s - fmin) * (to_max - to_min)) / (fmax - fmin) on the 360ths
\* scale, the division truncating: from_min maps to to_min, from_max to
\* to_max, the midpoint of 0..12 to the midpoint of 0..160, and an input
\* outside [from_min, from_max] maps outside [to_min, to_max].
C29_LinearMapping ==
    LET s == Scaled(calc.args[1])
        fmin == Scaled(calc.args[2])
        fmax == Scaled(calc.args[3])
        to_min == calc.args[4]
        to_max == calc.args[5]
    IN  (calc.op = "map_to_i16" /\ fmin < fmax) =>
            /\ ~calc.out.panic
            /\ FitsI32(s - fmin, to_max - to_min) =>
                   calc.out.value = Interpolated(s, fmin, fmax, to_min, to_max)
            /\ s = fmin => calc.out.value = to_min
            /\ s = fmax => calc.out.value = to_max
            /\ (s = 6 * 360 /\ fmin = 0 /\ fmax = 12 * 360
                    /\ to_min = 0 /\ to_max = 160) => calc.out.value = 80
            /\ (s < fmin \/ s > fmax) =>
                   (calc.out.value < to_min \/ calc.out.value > to_max)

----------------------------------------------------------------------------
(* Walkers and walled edges                                                *)

\* The direction from cell c to the adjacent cell c2
DirectionTo(c, c2) ==
    IF c2[1] = c[1] - 1 THEN "Left"
    ELSE IF c2[1] = c[1] + 1 THEN "Right"
    ELSE IF c2[2] = c[2] - 1 THEN "Up"
    ELSE "Down"

AdjacentCells(c, c2) ==
    \/ c2[2] = c[2] /\ c2[1] \in {c[1] - 1, c[1] + 1}
    \/ c2[1] = c[1] /\ c2[2] \in {c[2] - 1, c[2] + 1}

\* The walker went from its cell to an adjacent one across a walled edge
CrossedWall(b, e) ==
    /\ AdjacentCells(IntCell(b), IntCell(e))
    /\ get_wall(IntCell(b)[1], IntCell(b)[2], DirectionTo(IntCell(b), IntCell(e)))

\* C30: with the walls left alone once the walkers are created, no walker
\* crosses a walled edge: when a tick takes a walker from a cell to an
\* adjacent cell, get_wall reports no wall on the edge between them, the
\* first cell a walker leaves after create_walker included.
C30_NeverCrossesWall ==
    Returned =>
        /\ \A i \in 1 .. Len(last.mice_end) :
               ~CrossedWall(last.mice_before[i], last.mice_end[i])
        /\ \A i \in 1 .. Len(last.cats_end) :
               ~CrossedWall(last.cats_before[i], last.cats_end[i])

----------------------------------------------------------------------------
(* The walls under the calls that do not set walls                         *)

\* C31: tick, create_walker, set_tile and set_arrow change no wall: in every
\* state reached from World::new() by these calls every cell of row 0 has
\* its Up wall, every cell of column 0 has its Left wall, and get_wall gives
\* for every cell and direction what it gave right after construction (true
\* on the edges of the outer boundary, false elsewhere).
C31_WallsNeverChange ==
    /\ \A x \in XS : get_wall(x, 0, "Up")
    /\ \A y \in YS : get_wall(0, y, "Left")
    /\ \A x \in XS, y \in YS, d \in Direction :
           get_wall(x, y, d) = IsBoundary(x, y, d)

\* Walkers were created in two cells, a tile was placed and changed the
\* outcome of a tick
C31_Witness ==
    /\ last.op = "tick"
    /\ last.ret = "Lose"
    /\ Cardinality(created) >= 2
    /\ ops.tiles >= 1
    /\ ticks >= 60

----------------------------------------------------------------------------
(* Walkers in a cell walled on all sides                                   *)

\* Cell (x, y) has a wall on each of its four edges
WalledIn(x, y) == \A d \in Direction : get_wall(x, y, d)

\* C32: when the cell a walker has just entered has walls on all four
\* edges, the wall check leaves the walker with the direction it had after
\* the arrow check.
C32_WalledInKeepsDirection ==
    Returned =>
        \A i \in Events :
            WalledIn(last.events[i].x, last.events[i].y) =>
                last.events[i].dir_out = last.events[i].dir_arrow

\* A walker entered a cell walled on all sides, was turned by the arrow in
\* it and kept the direction of the arrow
C32_Witness ==
    /\ Returned
    /\ \E i \in Events :
           /\ WalledIn(last.events[i].x, last.events[i].y)
           /\ last.events[i].dir_arrow # last.events[i].dir_in
           /\ last.events[i].dir_out = last.events[i].dir_arrow

----------------------------------------------------------------------------
(* The map selected in the menu                                            *)

\* C33: in every reachable Menu state of the StateMachine, under any input
\* sequence, map_index is an index into the map list:
\* 0 <= map_index < map_count.
C33_MapIndexInRange ==
    sm.state.kind = "Menu" =>
        /\ 0 <= sm.state.map_index
        /\ sm.state.map_index < sm.state.map_count

----------------------------------------------------------------------------
(* The states the StateMachine goes through                                *)

\* C34: from StateMachine::new(), under any sequence of input snapshots,
\* neither state nor target_state is ever Game, a state that is Menu before
\* a tick is Menu after it, and the only transition a tick asks for is the
\* one from Intro to Menu.
C34_NeverGame ==
    /\ sm.state.kind # "Game"
    /\ sm.target_state.kind # "Game"
    /\ (sm_obs.n > 0 /\ sm_obs.pre.state.kind = "Menu") => sm.state.kind = "Menu"
    /\ sm_obs.requested =>
           /\ sm_obs.ticked = "Intro"
           /\ sm.target_state.kind = "Menu"

\* The Menu state was current before a tick with A pressed, long after the
\* transition, and is current after it
C34_Witness ==
    /\ sm_obs.n > 0
    /\ sm_obs.pre.state.kind = "Menu"
    /\ sm_obs.input.btn_a
    /\ sm_obs.since >= 50
    /\ sm.state.kind = "Menu"
    /\ sm.target_state.kind = "Menu"

----------------------------------------------------------------------------
(* The order in which a tick resolves its walkers                          *)

\* The index in the tile grid of the cell of event i
EventCell(i) == last.events[i].y * WORLD_WIDTH + last.events[i].x

\* The events before event i that are about the cell of event i
EarlierOnCell(i) == {j \in 1 .. (i - 1) : EventCell(j) = EventCell(i)}

\* The tile of the cell of event i as the events before it left it
TileLeftBefore(i) ==
    IF EarlierOnCell(i) = {} THEN last.tiles_before[EventCell(i)]
    ELSE last.events[CHOOSE j \in EarlierOnCell(i) :
                         \A k \in EarlierOnCell(i) : k <= j].tile_after

\* The direction the tile grid of the start of the tick gives the walker of
\* event i
DirectionAtStart(i) ==
    LET d == try_from(last.tiles_before[EventCell(i)])
    IN  IF d.ok THEN d.dir ELSE last.events[i].dir_in

\* C35: within one tick all mice are resolved before all cats, each registry
\* in its order, and mice change no tile: a mouse is redirected by the tile
\* grid as it was at the start of the tick, also when a cat diminishes or
\* removes the arrow of its cell in the same tick, and a cat meets the tile as
\* the cats before it in the registry left it.
C35_MiceBeforeCats ==
    Returned =>
        \A i \in Events :
            /\ \A j \in Events :
                   i < j =>
                       /\ ~(last.events[i].walker_type = "Cat"
                              /\ last.events[j].walker_type = "Mouse")
                       /\ last.events[i].walker_type = last.events[j].walker_type
                              => last.events[i].idx < last.events[j].idx
            /\ last.events[i].walker_type = "Mouse" =>
                   /\ last.events[i].tile = last.tiles_before[EventCell(i)]
                   /\ last.events[i].tile_after = last.events[i].tile
                   /\ last.events[i].dir_arrow = DirectionAtStart(i)
            /\ last.events[i].walker_type = "Cat" =>
                   last.events[i].tile = TileLeftBefore(i)

\* A mouse and two cats entered the cell of a Down arrow in one tick: the
\* mouse was turned down, the first cat halved the arrow and the second cat
\* met the half arrow
C35_Witness ==
    /\ Returned
    /\ \E i, j, k \in Events :
           /\ i < j /\ j < k
           /\ EventCell(i) = EventCell(j) /\ EventCell(j) = EventCell(k)
           /\ last.events[i].walker_type = "Mouse"
           /\ last.events[i].tile = "Down"
           /\ last.events[i].dir_arrow = "Down"
           /\ last.events[j].walker_type = "Cat"
           /\ last.events[j].tile = "Down"
           /\ last.events[j].tile_after = "DownHalf"
           /\ last.events[k].walker_type = "Cat"
           /\ last.events[k].tile = "DownHalf"
           /\ tiles[EventCell(i)] = "DownHalf"

----------------------------------------------------------------------------
(* Outcomes of successive ticks                                            *)

\* Some walker entered a Hole or Rocket cell in the last tick
EnteredTerminal == \E i \in Events : Terminal(last.events[i])

\* C36: the outcome of a tick is not latched: a tick in which no walker
\* enters a Hole or Rocket cell returns NoChange, also after an earlier tick
\* returned Lose or Win, the walkers of that outcome having been pruned.
C36_OutcomeNotLatched ==
    (Returned /\ ~EnteredTerminal) => last.ret = "NoChange"

\* A mouse was pruned by an earlier tick, which returned Lose or Win, and
\* the last tick moved the mice that are left and returned NoChange
C36_Witness ==
    /\ Returned
    /\ ~EnteredTerminal
    /\ last.ret = "NoChange"
    /\ Len(last.mice_before) >= 1
    /\ Len(last.mice_before) < Cardinality(created)

----------------------------------------------------------------------------
(* The positions walkers take                                              *)

\* The fractional units a walker moves in a tick
SpeedOf(w) == IF w.walker_type = "Cat" THEN CAT_SPEED ELSE MOUSE_SPEED

\* Both fractional parts of the position are multiples of the walker's
\* speed strictly between -360 and 360, and at most one of them is not 0
OnTrack(w) ==
    /\ w.x.fractional % SpeedOf(w) = 0
    /\ w.y.fractional % SpeedOf(w) = 0
    /\ w.x.fractional > -360 /\ w.x.fractional < 360
    /\ w.y.fractional > -360 /\ w.y.fractional < 360
    /\ w.x.fractional = 0 \/ w.y.fractional = 0

\* The walker of event i at the end of the tick
WalkerAtEnd(i) ==
    IF last.events[i].walker_type = "Mouse"
    THEN last.mice_end[last.events[i].idx]
    ELSE last.cats_end[last.events[i].idx]

\* C37: in every state reached by ticking a World whose walkers come from
\* create_walker, the fractional parts of each walker are multiples of its
\* speed (6 for a mouse, 4 for a cat) strictly between -360 and 360, at most
\* one of its coordinates has a fractional part other than 0, and a walker
\* for which walk() reported NewSquare has both fractional parts 0.
C37_WalkersOnTrack ==
    /\ \A i \in 1 .. Len(mice) : OnTrack(mice[i])
    /\ \A i \in 1 .. Len(cats) : OnTrack(cats[i])
    /\ Returned =>
           /\ \A i \in 1 .. Len(last.mice_end) : OnTrack(last.mice_end[i])
           /\ \A i \in 1 .. Len(last.cats_end) : OnTrack(last.cats_end[i])
           /\ \A i \in Events :
                  /\ WalkerAtEnd(i).x.fractional = 0
                  /\ WalkerAtEnd(i).y.fractional = 0

\* A walker that was turned downwards in an earlier tick is part of the way
\* to the next cell, and a walker entered a new cell in the last tick
C37_Witness ==
    /\ Returned
    /\ last.events # <<>>
    /\ \E i \in 1 .. Len(mice) :
           /\ mice[i].direction = "Down"
           /\ mice[i].y.fractional > 0
           /\ mice[i].x.fractional = 0

----------------------------------------------------------------------------
(* The value of a sum and of a difference                                  *)

\* C38: addition and subtraction keep the value on the 360ths scale: for
\* operands with fractional parts in [-359, 359] and an integer part of the
\* result that fits the i8, the scaled value of a + b is the sum of the
\* scaled values of a and b, and that of a - b is their difference.
C38_ScaledValuePreserved ==
    /\ (calc.op = "add" /\ InI8(calc.args[1].value + calc.args[2].value)
            /\ InI8(IntegerOfSum(calc.args[1], calc.args[2]))) =>
           Scaled(calc.out) = Scaled(calc.args[1]) + Scaled(calc.args[2])
    /\ (calc.op = "sub" /\ InI8(calc.args[1].value - calc.args[2].value)
            /\ InI8(IntegerOfDifference(calc.args[1], calc.args[2]))) =>
           Scaled(calc.out) = Scaled(calc.args[1]) - Scaled(calc.args[2])

\* An addition whose fractional parts carry into the integer part
C38_Witness ==
    /\ calc.op = "add"
    /\ ~IsPanic(calc.out)
    /\ calc.args[1].fractional + calc.args[2].fractional >= 360
    /\ calc.out.value = calc.args[1].value + calc.args[2].value + 1
    /\ calc.out.fractional
           = calc.args[1].fractional + calc.args[2].fractional - 360

----------------------------------------------------------------------------
(* Joystick flicks                                                         *)

FlickNames == {"js_up", "js_down", "js_left", "js_right"}

\* The reading of the axis of a flick, counted towards the flick
Towards(input, f) ==
    CASE f = "js_up" -> input.js_y
      [] f = "js_down" -> -input.js_y
      [] f = "js_right" -> input.js_x
      [] f = "js_left" -> -input.js_x

\* The snapshot read_input was given as last_output
LastOutput == calc.args[1]

\* C39: for each of the four flick directions, if the flick was down in the
\* previous snapshot and the reading of its axis is now inside its dead
\* zone (below 512 towards the flick), the new snapshot has the flick with
\* down = false, pressed = false and released = true.
C39_FlickEndsInDeadZone ==
    calc.op = "read_input" =>
        \A f \in FlickNames :
            (LastOutput[f].down /\ Towards(calc.out, f) < DEAD) =>
                calc.out[f] = ButtonState_up


\* C40: with each output of read_input given to the next call as
\* last_output, a flick has pressed = true only in a snapshot whose
\* previous snapshot had that flick with down = false and whose axis
\* reading is beyond the flick threshold (1536), and a flick that was down
\* stays down while the reading is between the dead threshold (512) and
\* the flick threshold: one continuous flick gives one pressed event.
C40_OnePressedPerFlick ==
    calc.op = "read_input" =>
        \A f \in FlickNames :
            /\ calc.out[f].pressed =>
                   (~LastOutput[f].down /\ Towards(calc.out, f) > FLICK)
            /\ (LastOutput[f].down /\ Towards(calc.out, f) >= DEAD
                    /\ Towards(calc.out, f) <= FLICK) => calc.out[f].down

====
